---- MODULE Spec2Model ----
(***************************************************************************)
(* gemini-claude: a gateway translating Anthropic-style requests to the    *)
(* Gemini API.  This module models the dispatch queue (RequestQueue), the  *)
(* response cache and the /v1/messages handler of src/src/server.js, and   *)
(* the translators of src/src/proxy.js.                                    *)
(***************************************************************************)
EXTENDS Integers, Sequences, FiniteSets, TLC

VARIABLES
    now,              \* Date.now(), in milliseconds
    running,          \* RequestQueue.running
    lastRequestTime,  \* RequestQueue.lastRequestTime
    sub,              \* the callers of RequestQueue.add: position and timer
    input,            \* claudeRequest, the Dialect A request being translated
    mcp,              \* mcpIntegration of proxy.js (the tool bridge)
    output,           \* geminiRequest, the result of claudeToGeminiRequest
    cleaned,          \* cleanJsonSchema(schema)
    recleaned,        \* cleanJsonSchema(cleanJsonSchema(schema))
    phase,            \* position of the translation run
    frames,           \* the upstream reply: the JSON objects it streams
    wire,             \* the bytes of the upstream stream not yet read
    buffer,           \* GeminiStreamParser.buffer
    index,            \* ClaudeStreamConverter.index
    lastData,         \* ClaudeStreamConverter.lastData
    delivered,        \* the objects returned by the parse calls so far
    emitted,          \* the events written to the client (res.write)
    ended,            \* res.end() was called
    cache,            \* the RequestCache object: its map and its counters
    stats,            \* the request statistics of server.js
    calls,            \* the calls of POST /v1/messages and their replies
    heap,             \* the configuration objects that are still referenced
    config,           \* `let config` of server.js: the object it refers to
    disk,             \* data/config.json
    sessions,         \* the session store of auth.js (Map token -> session)
    rand,             \* the number of random values drawn so far
    inflight,         \* the admin requests suspended at an await
    reply             \* the last reply of an admin or authentication request

queueVars == <<now, running, lastRequestTime, sub>>
transVars == <<input, mcp, output, cleaned, recleaned, phase>>
streamVars == <<frames, wire, buffer, index, lastData, delivered, emitted, ended>>
handlerVars == <<cache, stats, calls>>
adminVars == <<heap, config, disk, sessions, rand, inflight, reply>>
vars == <<queueVars, transVars, streamVars, handlerVars, adminVars>>

\* what an action of one component leaves alone
exceptQueue == <<transVars, streamVars, handlerVars, adminVars>>
exceptTrans == <<queueVars, streamVars, handlerVars, adminVars>>
exceptStream == <<queueVars, transVars, handlerVars, adminVars>>
exceptHandler == <<transVars, streamVars, adminVars>>
exceptAdmin == <<running, lastRequestTime, sub, transVars, streamVars, handlerVars>>

(***************************************************************************)
(* Program constants                                                       *)
(***************************************************************************)
maxConcurrent == 3
minInterval == 200
pollInterval == 50

(***************************************************************************)
(* Bounds of the model                                                     *)
(***************************************************************************)
NumSubmitters == 4
MaxTicks == 5

Submitters == 1..NumSubmitters

\* Date.now() counts from 1970: the first call of add never waits for spacing.
Epoch == 5 * minInterval
MaxTime == Epoch + MaxTicks * pollInterval

NoTimer == 0 - 1

(***************************************************************************)
(* RequestQueue.add, from one suspension point to the next.  Each operator *)
(* gives the caller's next position and the queue fields it leaves.        *)
(***************************************************************************)

\* a variant of the admission that does not count the call
Admit_NoCount(run, last, t) ==
    [pc |-> "run", wakeAt |-> NoTimer, running |-> run, lastRequestTime |-> t]

\* lines 85-89: take the slot, stamp the departure, call fn()
Admit(run, last, t) ==
    [pc |-> "run", wakeAt |-> NoTimer, running |-> run + 1, lastRequestTime |-> t]

\* lines 77-83: wait for the rest of the minimum interval, if any
SpacingWait(run, last, t) ==
    IF t - last < minInterval
    THEN [pc |-> "space", wakeAt |-> t + (minInterval - (t - last)),
          running |-> run, lastRequestTime |-> last]
    ELSE Admit(run, last, t)

\* lines 72-74: poll for a free slot every 50 ms
SlotWait(run, last, t) ==
    IF run >= maxConcurrent
    THEN [pc |-> "poll", wakeAt |-> t + pollInterval,
          running |-> run, lastRequestTime |-> last]
    ELSE SpacingWait(run, last, t)

\* the caller r of add moves to the position step
QueueStep(r, step) ==
    /\ sub' = [sub EXCEPT ![r] = [pc |-> step.pc, wakeAt |-> step.wakeAt]]
    /\ running' = step.running
    /\ lastRequestTime' = step.lastRequestTime

Apply(r, step) ==
    /\ QueueStep(r, step)
    /\ UNCHANGED <<now, exceptQueue>>

(***************************************************************************)
(* JSON values.  Every value is a record [t, k, c]:                        *)
(*   t = "s": a string, k = <<the string>>;   t = "u": null or undefined;  *)
(*   t = "a": an array of the values c;                                    *)
(*   t = "o": an object with the keys k (in insertion order), values c.    *)
(***************************************************************************)
Str(x) == [t |-> "s", k |-> <<x>>, c |-> <<>>]
Undefined == [t |-> "u", k |-> <<>>, c |-> <<>>]
Arr(elems) == [t |-> "a", k |-> <<>>, c |-> elems]
Obj(keys, vals) == [t |-> "o", k |-> keys, c |-> vals]

Range(f) == {f[i] : i \in DOMAIN f}

\* the elements of seq at the indices in keep, in order
RECURSIVE SelectFrom(_, _, _)
SelectFrom(seq, keep, i) ==
    IF i > Len(seq) THEN <<>>
    ELSE (IF i \in keep THEN <<seq[i]>> ELSE <<>>) \o SelectFrom(seq, keep, i + 1)

SelectAt(seq, keep) == SelectFrom(seq, keep, 1)

HasKey(v, key) == v.t = "o" /\ key \in Range(v.k)
Get(v, key) == v.c[CHOOSE i \in DOMAIN v.k : v.k[i] = key]
DeleteKey(v, key) ==
    LET keep == {i \in DOMAIN v.k : v.k[i] # key}
    IN  Obj(SelectAt(v.k, keep), SelectAt(v.c, keep))

\* Object.keys: the keys of an object, the indices of an array, the character
\* positions of a string (strings of the model have one character)
ObjectKeys(v) ==
    CASE v.t = "o" -> v.k
      [] v.t = "a" -> [i \in DOMAIN v.c |-> ToString(i - 1)]
      [] v.t = "s" -> <<"0">>
      [] OTHER -> <<>>

\* proxy.js 832-881
unsupportedFields ==
    {"additionalProperties", "$schema", "$id", "$ref", "definitions", "title",
     "examples", "default", "readOnly", "writeOnly", "exclusiveMinimum",
     "exclusiveMaximum", "minimum", "maximum", "multipleOf", "pattern", "format",
     "minLength", "maxLength", "minItems", "maxItems", "uniqueItems",
     "minProperties", "maxProperties", "patternProperties", "dependencies",
     "contentMediaType", "contentEncoding", "const", "allOf", "anyOf", "oneOf",
     "not"}

\* a variant of the repair that reads the properties of the input schema
\* instead of the cleaned copy
RepairRequired_InputProperties(obj, schema) ==
    IF /\ HasKey(obj, "required") /\ Get(obj, "required").t = "a"
       /\ HasKey(schema, "properties") /\ Get(schema, "properties").t # "u"
    THEN LET req == Get(obj, "required")
             valid == Range(ObjectKeys(Get(schema, "properties")))
             kept == SelectAt(req.c,
                        {i \in DOMAIN req.c : req.c[i].t = "s" /\ req.c[i].k[1] \in valid})
         IN  IF kept = <<>> THEN DeleteKey(obj, "required")
             ELSE Obj(obj.k, [i \in DOMAIN obj.k |->
                        IF obj.k[i] = "required" THEN Arr(kept) ELSE obj.c[i]])
    ELSE obj

\* a variant of the repair that leaves an emptied `required` in place
RepairRequired_KeepEmpty(obj, schema) ==
    IF /\ HasKey(obj, "required") /\ Get(obj, "required").t = "a"
       /\ HasKey(obj, "properties") /\ Get(obj, "properties").t # "u"
    THEN LET req == Get(obj, "required")
             valid == Range(ObjectKeys(Get(obj, "properties")))
             kept == SelectAt(req.c,
                        {i \in DOMAIN req.c : req.c[i].t = "s" /\ req.c[i].k[1] \in valid})
         IN  Obj(obj.k, [i \in DOMAIN obj.k |->
                    IF obj.k[i] = "required" THEN Arr(kept) ELSE obj.c[i]])
    ELSE obj

\* proxy.js 906-922: restrict `required` to the keys of the cleaned
\* `properties`; drop it when nothing is left
RepairRequired(obj, schema) ==
    IF /\ HasKey(obj, "required") /\ Get(obj, "required").t = "a"
       /\ HasKey(obj, "properties") /\ Get(obj, "properties").t # "u"
    THEN LET req == Get(obj, "required")
             valid == Range(ObjectKeys(Get(obj, "properties")))
             kept == SelectAt(req.c,
                        {i \in DOMAIN req.c : req.c[i].t = "s" /\ req.c[i].k[1] \in valid})
         IN  IF kept = <<>> THEN DeleteKey(obj, "required")
             ELSE Obj(obj.k, [i \in DOMAIN obj.k |->
                        IF obj.k[i] = "required" THEN Arr(kept) ELSE obj.c[i]])
    ELSE obj

\* proxy.js 892: is the key copied?
KeepField(key) == key \notin unsupportedFields

\* proxy.js 819-935
RECURSIVE cleanJsonSchema(_)
cleanJsonSchema(schema) ==
    CASE schema.t = "a" ->
            Arr([i \in DOMAIN schema.c |-> cleanJsonSchema(schema.c[i])])
      [] schema.t = "o" ->
            LET keep == {i \in DOMAIN schema.k : KeepField(schema.k[i])}
                keys == SelectAt(schema.k, keep)
                vals == SelectAt(schema.c, keep)
                copy == Obj(keys, [i \in DOMAIN vals |-> cleanJsonSchema(vals[i])])
            IN  RepairRequired(copy, schema)
      [] OTHER -> schema

\* does a rejected keyword occur as an object key, at any depth?
\* (proxy.js 981-1008, findUnsupportedFields)
RECURSIVE HasUnsupported(_)
HasUnsupported(v) ==
    CASE v.t = "a" -> \E i \in DOMAIN v.c : HasUnsupported(v.c[i])
      [] v.t = "o" -> \/ \E i \in DOMAIN v.k : v.k[i] \in unsupportedFields
                      \/ \E i \in DOMAIN v.c : HasUnsupported(v.c[i])
      [] OTHER -> FALSE

(***************************************************************************)
(* Dialect A requests (claudeRequest).                                     *)
(*   message: [role, content]; content: [isString, text, blocks]           *)
(*   block:   [type, text, id, name]  (id is tool_use.id or tool_use_id)   *)
(*   tool:    [name, input_schema]                                         *)
(* Dialect G parts: [kind, text, name].                                    *)
(***************************************************************************)
StringContent(x) == [isString |-> TRUE, text |-> x, blocks |-> <<>>]
Blocks(bs) == [isString |-> FALSE, text |-> "", blocks |-> bs]
TextBlock(x) == [type |-> "text", text |-> x, id |-> "", name |-> ""]
ImageBlock(x) == [type |-> "image", text |-> x, id |-> "", name |-> ""]
ToolUse(i, n) == [type |-> "tool_use", text |-> "", id |-> i, name |-> n]
ToolResult(i) == [type |-> "tool_result", text |-> "", id |-> i, name |-> ""]
Msg(r, cont) == [role |-> r, content |-> cont]
Tool(n, schema) == [name |-> n, input_schema |-> schema]

TextPart(x) == [kind |-> "text", text |-> x, name |-> ""]
InlineData(x) == [kind |-> "inlineData", text |-> x, name |-> ""]
FunctionCall(n) == [kind |-> "functionCall", text |-> "", name |-> n]
FunctionResponse(n) == [kind |-> "functionResponse", text |-> "", name |-> n]

\* the tool bridge: null, or initialised with the tools it loaded
NoMcp == [initialized |-> FALSE, names |-> {}, claudeTools |-> <<>>]

\* mcp-integration.js 250-257, behind the null check of proxy.js 1059
IsMcpTool(bridge, toolName) == bridge.initialized /\ toolName \in bridge.names

\* proxy.js 692-697: the name of the first tool_use block of the message that
\* carries the id (the inner loop breaks at the first match)
FirstMatch(msg, id) ==
    LET bs == msg.content.blocks
        hits == {i \in DOMAIN bs : bs[i].type = "tool_use" /\ bs[i].id = id}
    IN  IF msg.content.isString \/ hits = {} THEN <<>>
        ELSE <<bs[CHOOSE i \in hits : \A j \in hits : i <= j].name>>

\* proxy.js 686-700: walk the messages from the last one backwards; stop at
\* the first message that changed functionName
RECURSIVE SearchBack(_, _, _)
SearchBack(messages, id, i) ==
    IF i = 0 THEN id
    ELSE LET m == FirstMatch(messages[i], id)
         IN  IF m # <<>> /\ m[1] # id THEN m[1]
             ELSE SearchBack(messages, id, i - 1)

FunctionName(messages, block) == SearchBack(messages, block.id, Len(messages))

\* proxy.js 673-772: one block gives at most one part
BlockParts(messages, block) ==
    CASE block.type = "text" -> <<TextPart(block.text)>>
      [] block.type = "image" -> <<InlineData(block.text)>>
      [] block.type = "tool_result" ->
            <<FunctionResponse(FunctionName(messages, block))>>
      [] block.type = "tool_use" -> <<FunctionCall(block.name)>>
      [] OTHER -> <<>>

RECURSIVE BlocksParts(_, _, _)
BlocksParts(messages, bs, i) ==
    IF i > Len(bs) THEN <<>>
    ELSE BlockParts(messages, bs[i]) \o BlocksParts(messages, bs, i + 1)

\* proxy.js 667-773
MessageParts(messages, msg) ==
    IF msg.content.isString THEN <<TextPart(msg.content.text)>>
    ELSE BlocksParts(messages, msg.content.blocks, 1)

GeminiRole(msg) == IF msg.role = "assistant" THEN "model" ELSE "user"

\* a variant of the merge that never merges
PushTurn_NoMerge(contents, role, parts) ==
    Append(contents, [role |-> role, parts |-> parts])

\* proxy.js 775-783: merge into the last turn, or add a turn
PushTurn(contents, role, parts) ==
    IF contents # <<>> /\ contents[Len(contents)].role = role
    THEN [contents EXCEPT ![Len(contents)].parts = @ \o parts]
    ELSE Append(contents, [role |-> role, parts |-> parts])

\* proxy.js 665-784: the contents after the first n messages
RECURSIVE Contents(_, _)
Contents(messages, n) ==
    IF n = 0 THEN <<>>
    ELSE PushTurn(Contents(messages, n - 1), GeminiRole(messages[n]),
                  MessageParts(messages, messages[n]))

\* proxy.js 665, server.js 108: claudeRequest.messages || [], and
\* body.messages?.[0]
Messages(request) ==
    IF "messages" \in DOMAIN request THEN request.messages ELSE <<>>

\* a message without a role: msg.role is undefined
NoRole == "undefined"

\* proxy.js 1039-1041
HasFunctionResponse(contents) ==
    \E i \in DOMAIN contents :
        \E j \in DOMAIN contents[i].parts :
            contents[i].parts[j].kind = "functionResponse"

\* proxy.js 1022-1035
AllTools(request, bridge) ==
    (IF bridge.initialized THEN bridge.claudeTools ELSE <<>>) \o request.tools

\* proxy.js 1057-1103
FunctionDeclaration(tool, bridge) ==
    LET cleanedSchema ==
            IF tool.input_schema.t = "u" THEN Obj(<<>>, <<>>)
            ELSE IF IsMcpTool(bridge, tool.name) THEN tool.input_schema
            ELSE cleanJsonSchema(tool.input_schema)
        hasParameters == Len(ObjectKeys(cleanedSchema)) > 0
    IN  [name |-> tool.name, hasParameters |-> hasParameters,
         parameters |-> IF hasParameters THEN cleanedSchema ELSE Undefined]

\* a variant that sends the catalog whatever the contents hold
SendTools_Always(allTools, contents) == allTools # <<>>

\* proxy.js 1051: is the catalog sent?
SendTools(allTools, contents) ==
    allTools # <<>> /\ ~HasFunctionResponse(contents)

\* proxy.js 790-791, 803
minTokens == 100
defaultTokens == 4096
unspecifiedTokens == 4096

\* an optional field of the request: <<>> when the request does not carry it
Field(request, name) ==
    IF name \in DOMAIN request THEN <<request[name]>> ELSE <<>>

\* a variant that passes every given max_tokens through
maxOutputTokens_NoMinimum(max_tokens) ==
    IF max_tokens # <<>> /\ max_tokens[1] # 0 THEN max_tokens[1]
    ELSE unspecifiedTokens

\* proxy.js 787-804: generationConfig.maxOutputTokens; a number is truthy
\* unless it is 0
maxOutputTokens(max_tokens) ==
    IF max_tokens # <<>> /\ max_tokens[1] # 0
    THEN (IF max_tokens[1] < minTokens THEN defaultTokens ELSE max_tokens[1])
    ELSE unspecifiedTokens

\* proxy.js 625-649, 1105-1109: the keys of geminiRequest.  No other key is
\* ever assigned.
RequestKeys(request, send) ==
    {"contents", "safetySettings", "generationConfig"}
    \cup (IF "system" \in DOMAIN request /\ request.system # ""
          THEN {"system_instruction"} ELSE {})
    \cup (IF send THEN {"tools"} ELSE {})

\* proxy.js 786-816: the keys of geminiRequest.generationConfig
GenerationConfigKeys(request) ==
    {"maxOutputTokens"}
    \cup (IF "temperature" \in DOMAIN request THEN {"temperature"} ELSE {})
    \cup (IF "top_p" \in DOMAIN request THEN {"topP"} ELSE {})
    \cup (IF "top_k" \in DOMAIN request THEN {"topK"} ELSE {})
    \cup (IF "stop_sequences" \in DOMAIN request THEN {"stopSequences"} ELSE {})

\* proxy.js 616-1113
claudeToGeminiRequest(request, bridge) ==
    LET contents == Contents(Messages(request), Len(Messages(request)))
        allTools == AllTools(request, bridge)
        send == SendTools(allTools, contents)
    IN  [contents |-> contents,
         maxOutputTokens |-> maxOutputTokens(Field(request, "max_tokens")),
         hasTools |-> send,
         functionDeclarations |->
            IF send THEN [i \in DOMAIN allTools |->
                            FunctionDeclaration(allTools[i], bridge)]
            ELSE <<>>,
         keys |-> RequestKeys(request, send),
         generationConfig |-> GenerationConfigKeys(request)]

(***************************************************************************)
(* Response translators (proxy.js 1147-1372).                              *)
(* geminiData: [candidate, parts, finishReason]; candidate says whether    *)
(* candidates[0] is there, finishReason "" that the field is absent.       *)
(* Events of the Dialect A stream: [event, index, type, text].             *)
(***************************************************************************)
GeminiData(cand, parts, fin) ==
    [candidate |-> cand, parts |-> parts, finishReason |-> fin]

Ev(event, idx, type, text) ==
    [event |-> event, index |-> idx, type |-> type, text |-> text]

NoIndex == 0 - 1

\* proxy.js 1148-1156
mapFinishReason(finishReason) ==
    CASE finishReason = "STOP" -> "end_turn"
      [] finishReason = "MAX_TOKENS" -> "max_tokens"
      [] finishReason \in {"SAFETY", "RECITATION"} -> "stop_sequence"
      [] OTHER -> "end_turn"

\* proxy.js 1169-1185: the content block of a part, if any
PartBlocks(part) ==
    IF part.kind = "text" /\ part.text # ""
    THEN <<[type |-> "text", text |-> part.text, name |-> ""]>>
    ELSE IF part.kind = "functionCall"
    THEN <<[type |-> "tool_use", text |-> "", name |-> part.name]>>
    ELSE <<>>

RECURSIVE PartsBlocks(_, _)
PartsBlocks(parts, n) ==
    IF n = 0 THEN <<>> ELSE PartsBlocks(parts, n - 1) \o PartBlocks(parts[n])

\* a variant of the translator that makes an empty message of a reply
\* without candidates
geminiToClaudeResponse_NeverThrows(geminiResponse) ==
    [ok |-> TRUE,
     content |-> PartsBlocks(geminiResponse.parts, Len(geminiResponse.parts)),
     stop_reason |-> mapFinishReason(geminiResponse.finishReason)]

\* proxy.js 1159-1202; ok = FALSE stands for the thrown Error
geminiToClaudeResponse(geminiResponse) ==
    IF ~geminiResponse.candidate
    THEN [ok |-> FALSE, content |-> <<>>, stop_reason |-> ""]
    ELSE [ok |-> TRUE,
          content |-> PartsBlocks(geminiResponse.parts, Len(geminiResponse.parts)),
          stop_reason |-> mapFinishReason(geminiResponse.finishReason)]

\* proxy.js 1264-1331: the events of the part at partIndex (from 0)
PartEvents(part, partIndex, idx) ==
    IF part.kind = "text" /\ part.text # ""
    THEN (IF idx = 0 /\ partIndex = 0
          THEN <<Ev("content_block_start", partIndex, "text", "")>>
          ELSE <<>>)
         \o <<Ev("content_block_delta", partIndex, "text_delta", part.text)>>
    ELSE IF part.kind = "functionCall"
    THEN <<Ev("content_block_start", partIndex, "tool_use", part.name),
           Ev("content_block_delta", partIndex, "input_json_delta", part.name),
           Ev("content_block_stop", partIndex, "", "")>>
    ELSE <<>>

RECURSIVE PartsEvents(_, _, _)
PartsEvents(parts, n, idx) ==
    IF n = 0 THEN <<>>
    ELSE PartsEvents(parts, n - 1, idx) \o PartEvents(parts[n], n - 1, idx)

\* proxy.js 1239-1336: the events of one upstream object, and the converter
\* state after it
convertChunk(idx, last, geminiData) ==
    IF ~geminiData.candidate
    THEN [events |-> <<>>, index |-> idx, lastData |-> last]
    ELSE [events |->
            (IF idx = 0 THEN <<Ev("message_start", NoIndex, "", "")>> ELSE <<>>)
            \o PartsEvents(geminiData.parts, Len(geminiData.parts), idx),
          index |-> idx + 1,
          lastData |-> <<geminiData>>]

\* proxy.js 1338-1371; lastData is <<>> (null) or <<the last object>>
finalize(last) ==
    IF last = <<>> THEN <<>>
    ELSE <<Ev("content_block_stop", 0, "", ""),
           Ev("message_delta", NoIndex, "", mapFinishReason(last[1].finishReason)),
           Ev("message_stop", NoIndex, "", "")>>

(***************************************************************************)
(* The upstream byte stream, as a sequence of symbols: "D" is the frame    *)
(* prefix `data: `, "N" the blank line that ends a frame, the others are   *)
(* the pieces of the JSON text of a frame.                                 *)
(***************************************************************************)
PartTable ==
    [ta |-> TextPart("a"), tb |-> TextPart("b"), fA |-> FunctionCall("A")]

FinishTable == [S |-> "STOP", M |-> "MAX_TOKENS"]

TokenOf(table, v) == CHOOSE tok \in DOMAIN table : table[tok] = v

\* JSON.stringify of an upstream object
JsonText(g) ==
    <<"{">>
    \o (IF g.candidate THEN <<"C">> ELSE <<>>)
    \o [i \in DOMAIN g.parts |-> TokenOf(PartTable, g.parts[i])]
    \o (IF g.finishReason # "" THEN <<TokenOf(FinishTable, g.finishReason)>> ELSE <<>>)
    \o <<"}">>

\* JSON.parse (proxy.js 1218): ok = FALSE stands for the SyntaxError
JsonParse(text) ==
    LET n == Len(text)
        mid == IF n >= 2 THEN SubSeq(text, 2, n - 1) ELSE <<>>
        cand == mid # <<>> /\ mid[1] = "C"
        rest == IF cand THEN Tail(mid) ELSE mid
        hasFin == rest # <<>> /\ rest[Len(rest)] \in DOMAIN FinishTable
        toks == IF hasFin THEN SubSeq(rest, 1, Len(rest) - 1) ELSE rest
        ok == /\ n >= 2 /\ text[1] = "{" /\ text[n] = "}"
              /\ (cand \/ mid = <<>>)
              /\ \A i \in DOMAIN toks : toks[i] \in DOMAIN PartTable
    IN  [ok |-> ok,
         data |-> IF ok THEN GeminiData(cand, [i \in DOMAIN toks |-> PartTable[toks[i]]],
                                        IF hasFin THEN FinishTable[rest[Len(rest)]] ELSE "")
                  ELSE <<>>]

\* a frame whose payload is not valid JSON, and its payload: an object that
\* is not closed
Malformed == [malformed |-> TRUE]

BadText == <<"{", "C">>

\* "data: " payload "\n\n"
Frame(g) ==
    <<"D">> \o (IF g = Malformed THEN BadText ELSE JsonText(g)) \o <<"N">>

RECURSIVE Encode(_, _)
Encode(fs, n) == IF n = 0 THEN <<>> ELSE Encode(fs, n - 1) \o Frame(fs[n])

\* the positions where /^data: (.*)(?:\n\n|\r\r|\r\n\r\n)/gm matches buf at or
\* after lastIndex (positions count from 1, lastIndex from 0)
MatchStarts(buf, lastIndex) ==
    {p \in (lastIndex + 1)..Len(buf) :
        /\ buf[p] = "D"
        /\ p = 1 \/ buf[p - 1] = "N"
        /\ \E q \in (p + 1)..Len(buf) : buf[q] = "N"}

\* proxy.js 1216-1224: where the next regex.exec searches from.  The regex
\* keeps lastIndex, the end of the match, whether or not the buffer was cut
NextSearch(matchEnd, parsed) == matchEnd

\* proxy.js 1216-1224: the loop of regex.exec over this.buffer
RECURSIVE ParseLoop(_, _, _)
ParseLoop(buf, lastIndex, events) ==
    LET starts == MatchStarts(buf, lastIndex)
    IN  IF starts = {} THEN [buffer |-> buf, events |-> events]
        ELSE LET p == CHOOSE x \in starts : \A y \in starts : x <= y
                 q == CHOOSE x \in (p + 1)..Len(buf) :
                        buf[x] = "N" /\ \A y \in (p + 1)..(x - 1) : buf[y] # "N"
                 json == JsonParse(SubSeq(buf, p + 1, q - 1))
             IN  IF json.ok
                 THEN ParseLoop(SubSeq(buf, (q - p + 1) + 1, Len(buf)),
                                NextSearch(q, TRUE), Append(events, json.data))
                 ELSE ParseLoop(buf, NextSearch(q, FALSE), events)

\* proxy.js 1210-1227
parse(buf, chunk) == ParseLoop(buf \o chunk, 0, <<>>)

\* server.js 513-518: convert the parsed objects in turn
RECURSIVE ConvertAll(_, _, _, _)
ConvertAll(events, n, idx, last) ==
    IF n = 0 THEN [events |-> <<>>, index |-> idx, lastData |-> last]
    ELSE LET before == ConvertAll(events, n - 1, idx, last)
             this == convertChunk(before.index, before.lastData, events[n])
         IN  [events |-> before.events \o this.events,
              index |-> this.index, lastData |-> this.lastData]

\* the translator is not running
TransIdle ==
    /\ input = <<>>
    /\ mcp = <<>>
    /\ output = <<>>
    /\ cleaned = <<>>
    /\ recleaned = <<>>
    /\ phase = "off"

\* no request has reached POST /v1/messages
HandlerIdle ==
    /\ cache = <<>>
    /\ stats = <<>>
    /\ calls = <<>>

\* no admin request was made
AdminIdle ==
    /\ heap = <<>>
    /\ config = ""
    /\ disk = <<>>
    /\ sessions = <<>>
    /\ rand = 0
    /\ inflight = <<>>
    /\ reply = <<>>

\* no response is being streamed
StreamIdle ==
    /\ frames = <<>>
    /\ wire = <<>>
    /\ buffer = <<>>
    /\ index = 0
    /\ lastData = <<>>
    /\ delivered = <<>>
    /\ emitted = <<>>
    /\ ended = FALSE

(***************************************************************************)
(* Specification of the queue alone: fn is any asynchronous function.      *)
(***************************************************************************)
QInit ==
    /\ now = Epoch
    /\ running = 0
    /\ lastRequestTime = 0
    /\ sub = [r \in Submitters |-> [pc |-> "idle", wakeAt |-> NoTimer]]
    /\ TransIdle
    /\ StreamIdle
    /\ HandlerIdle
    /\ AdminIdle

\* add(fn) is called: runs to its first await.  Callers are numbered in the
\* order of their calls.
QAdd(r) ==
    /\ sub[r].pc = "idle"
    /\ \A q \in Submitters : q < r => sub[q].pc # "idle"
    /\ Apply(r, SlotWait(running, lastRequestTime, now))

\* the 50 ms timer of the slot loop fires: the loop condition is read again
QPollWake(r) ==
    /\ sub[r].pc = "poll"
    /\ now >= sub[r].wakeAt
    /\ Apply(r, SlotWait(running, lastRequestTime, now))

\* the spacing timer fires: execution continues at line 85
QSpaceWake(r) ==
    /\ sub[r].pc = "space"
    /\ now >= sub[r].wakeAt
    /\ Apply(r, Admit(running, lastRequestTime, now))

\* fn() settles (resolves or rejects): the finally block releases the slot
QSettle(r) ==
    /\ sub[r].pc = "run"
    /\ sub' = [sub EXCEPT ![r] = [pc |-> "done", wakeAt |-> NoTimer]]
    /\ running' = running - 1
    /\ UNCHANGED <<now, lastRequestTime, exceptQueue>>

Tick ==
    /\ now < MaxTime
    /\ now' = now + pollInterval
    /\ UNCHANGED <<running, lastRequestTime, sub, exceptQueue>>

QNext ==
    \/ \E r \in Submitters : QAdd(r)
    \/ \E r \in Submitters : QPollWake(r)
    \/ \E r \in Submitters : QSpaceWake(r)
    \/ \E r \in Submitters : QSettle(r)
    \/ Tick

SpecQueue == QInit /\ [][QNext]_vars

InFlight == {r \in Submitters : sub[r].pc = "run"}

\* C1: the number of admitted calls that have not settled never exceeds
\* maxConcurrent.
C1_ConcurrencyBound == Cardinality(InFlight) <= maxConcurrent

\* C2: every departure (a step that takes a slot and stamps lastRequestTime)
\* happens at least minInterval after the departure before it.
C2_DepartureSpacing ==
    [][running' > running => now - lastRequestTime >= minInterval]_vars

\* the submitter has departed: it took a slot, and fn was started
Departed(r) == sub[r].pc \in {"run", "done"}

\* C20: admission is first in, first out: a submitter has departed only if
\* every submitter that called add before it has departed.
C20_AdmissionIsFifo ==
    \A a, b \in Submitters :
        (a < b /\ Departed(b)) => Departed(a)

(***************************************************************************)
(* Specification of the request translator: a request is drawn from a      *)
(* bounded set and claudeToGeminiRequest is applied to it.                 *)
(***************************************************************************)
MaxMsgs == 3
MaxDepth == 2

QueueIdle ==
    /\ now = Epoch
    /\ running = 0
    /\ lastRequestTime = 0
    /\ sub = <<>>

MsgPool ==
    { Msg("user", StringContent("a")),
      Msg("user", Blocks(<<TextBlock("b")>>)),
      Msg("assistant", Blocks(<<TextBlock("c")>>)),
      Msg("assistant", Blocks(<<ToolUse("X", "A")>>)),
      Msg("assistant", Blocks(<<ToolUse("X", "A"), ToolUse("X", "B")>>)),
      Msg("assistant", Blocks(<<ToolUse("X", "B")>>)),
      Msg("assistant", Blocks(<<ToolUse("X", "X")>>)),
      Msg("user", Blocks(<<ToolResult("X")>>)),
      Msg("user", Blocks(<<ImageBlock("i"), ToolResult("Y")>>)) }

MsgSeqs == UNION {[1..n -> MsgPool] : n \in 0..MaxMsgs}

PlainSchema == Obj(<<"type">>, <<Str("s")>>)

\* a bridge that loaded the tool t1 of the server srv
\* (mcp-integration.js 73-79: it is offered as srv_t1)
Bridge ==
    [initialized |-> TRUE, names |-> {"t1", "srv_t1"},
     claudeTools |-> <<Tool("srv_t1", PlainSchema)>>]

Bridges == {NoMcp, Bridge}

TInit ==
    /\ QueueIdle
    /\ StreamIdle
    /\ HandlerIdle
    /\ AdminIdle
    /\ input \in [messages : MsgSeqs, tools : {<<>>, <<Tool("t2", PlainSchema)>>}]
    /\ mcp \in Bridges
    /\ output = <<>>
    /\ cleaned = <<>>
    /\ recleaned = <<>>
    /\ phase = "ready"

\* JSON true
JsonTrue == [t |-> "t", k |-> <<>>, c |-> <<>>]

\* JSON.stringify(v): the string that holds the value
Stringify(v) == Str(v)

\* obj[key] = val: the value of an existing key is replaced, a new key is
\* added after the others
SetKey(obj, key, val) ==
    IF key \in Range(obj.k)
    THEN Obj(obj.k, [i \in DOMAIN obj.c |-> IF obj.k[i] = key THEN val ELSE obj.c[i]])
    ELSE Obj(Append(obj.k, key), Append(obj.c, val))

\* a tool_result block with its content (a JSON value) and its is_error flag
ToolResultOf(i, content, is_error) ==
    [type |-> "tool_result", text |-> "", id |-> i, name |-> "",
     content |-> content, is_error |-> is_error]

\* proxy.js 702-725: when the content is an object, response is that object
\* (line 711), so the assignments of response.error and
\* response.error_message write into block.content, and JSON.stringify
\* reads it with error set.
WithError(block) ==
    IF block.is_error /\ block.content.t = "o"
    THEN [block EXCEPT !.content =
            SetKey(SetKey(block.content, "error", JsonTrue), "error_message",
                   Stringify(SetKey(block.content, "error", JsonTrue)))]
    ELSE block

\* the block after the translator has read it
BlockAfter(block) ==
    IF block.type = "tool_result" /\ "content" \in DOMAIN block
    THEN WithError(block)
    ELSE block

\* the request after claudeToGeminiRequest returned
RequestAfter(request) ==
    IF "messages" \notin DOMAIN request THEN request
    ELSE [request EXCEPT !.messages =
            [i \in DOMAIN request.messages |->
                [request.messages[i] EXCEPT !.content.blocks =
                    [j \in DOMAIN @ |-> BlockAfter(@[j])]]]]

\* the handler calls claudeToGeminiRequest(claudeRequest) (server.js 366)
Translate ==
    /\ phase = "ready"
    /\ output' = claudeToGeminiRequest(input, mcp)
    /\ input' = RequestAfter(input)
    /\ phase' = "translated"
    /\ UNCHANGED <<exceptTrans, mcp, cleaned, recleaned>>

TNext == Translate

SpecTranslate == TInit /\ [][TNext]_vars

\* the parts of all turns, in order
RECURSIVE Flatten(_, _)
Flatten(contents, n) ==
    IF n = 0 THEN <<>> ELSE Flatten(contents, n - 1) \o contents[n].parts

\* the number of the run of equal upstream roles that message i belongs to
RunOf(messages, i) ==
    1 + Cardinality({j \in 2..i : GeminiRole(messages[j]) # GeminiRole(messages[j-1])})

\* the translated parts of the messages of run k among the first n, in order
RECURSIVE RunParts(_, _, _)
RunParts(messages, k, n) ==
    IF n = 0 THEN <<>>
    ELSE RunParts(messages, k, n - 1) \o
         (IF RunOf(messages, n) = k THEN MessageParts(messages, messages[n]) ELSE <<>>)

\* C3: the translated contents have no two adjacent turns of the same role;
\* each turn is a maximal run of same-role messages and its parts are the
\* concatenation of their translated parts in the original order.
C3_MergedTurns ==
    phase = "translated" =>
        LET ms == input.messages
            cs == output.contents
        IN  /\ \A i \in 1..(Len(cs) - 1) : cs[i].role # cs[i+1].role
            /\ Len(cs) = (IF ms = <<>> THEN 0 ELSE RunOf(ms, Len(ms)))
            /\ \A i \in DOMAIN ms : cs[RunOf(ms, i)].role = GeminiRole(ms[i])
            /\ \A k \in DOMAIN cs : cs[k].parts = RunParts(ms, k, Len(ms))

\* C3 witness: [user a, user b, assistant c] is translated to two turns,
\* user [a, b] and model [c].
C3_Witness ==
    /\ phase = "translated"
    /\ input.messages = <<Msg("user", StringContent("a")),
                          Msg("user", Blocks(<<TextBlock("b")>>)),
                          Msg("assistant", Blocks(<<TextBlock("c")>>))>>
    /\ output.contents = <<[role |-> "user", parts |-> <<TextPart("a"), TextPart("b")>>],
                           [role |-> "model", parts |-> <<TextPart("c")>>]>>

\* positions <<message, block>> of the blocks of a type
BlocksOfType(ms, type) ==
    {pos \in UNION {{<<p, q>> : q \in DOMAIN ms[p].content.blocks} : p \in DOMAIN ms} :
        ms[pos[1]].content.blocks[pos[2]].type = type}

BlockAt(ms, pos) == ms[pos[1]].content.blocks[pos[2]]

Before(a, b) == a[1] < b[1] \/ (a[1] = b[1] /\ a[2] < b[2])

\* the functionResponse parts of the outbound request, in order
FunctionResponses(out) ==
    SelectSeq(Flatten(out.contents, Len(out.contents)),
              LAMBDA part : part.kind = "functionResponse")

\* the tool_use blocks before pos that carry the id of the tool_result at pos
EarlierUses(ms, pos) ==
    {u \in BlocksOfType(ms, "tool_use") :
        BlockAt(ms, u).id = BlockAt(ms, pos).id /\ Before(u, pos)}

MostRecent(uses) == CHOOSE u \in uses : \A v \in uses : v = u \/ Before(v, u)

\* C4: the functionResponse of every tool_result block is named after the
\* most recent tool_use block before it that carries its tool_use_id, and
\* after the raw tool_use_id when no tool_use block carries that id.
C4_ToolNameResolved ==
    phase = "translated" =>
        LET ms == input.messages
            results == BlocksOfType(ms, "tool_result")
            frs == FunctionResponses(output)
            Rank(pos) == 1 + Cardinality({r \in results : Before(r, pos)})
        IN  /\ Len(frs) = Cardinality(results)
            /\ \A pos \in results :
                  LET earlier == EarlierUses(ms, pos)
                      anyUse == {u \in BlocksOfType(ms, "tool_use") :
                                    BlockAt(ms, u).id = BlockAt(ms, pos).id}
                  IN  /\ earlier # {} =>
                            frs[Rank(pos)].name = BlockAt(ms, MostRecent(earlier)).name
                      /\ anyUse = {} => frs[Rank(pos)].name = BlockAt(ms, pos).id

\* C5: when a part of the translated contents is a functionResponse, the
\* outbound request has no tools field.
C5_NoToolsWithFunctionResponse ==
    (phase = "translated" /\ FunctionResponses(output) # <<>>) => ~output.hasTools

\* C5 witness: a request with a tool_result and a catalog (its own and the
\* bridge's) has been translated, and no tools are sent.
C5_Witness ==
    /\ phase = "translated"
    /\ BlocksOfType(input.messages, "tool_result") # {}
    /\ input.tools # <<>>
    /\ mcp.initialized
    /\ ~output.hasTools

(***************************************************************************)
(* Specification of the schema sanitiser: a tool schema is drawn from a    *)
(* bounded set of JSON values; cleanJsonSchema is applied to it, once and  *)
(* then to its own result, and the request carrying it is translated.      *)
(***************************************************************************)
TitledSchema == Obj(<<"type", "title">>, <<Str("s"), Str("s")>>)

Leaves ==
    { PlainSchema,
      TitledSchema,
      Str("s"),
      Obj(<<"required">>, <<Arr(<<Str("a")>>)>>) }

RequiredLists ==
    { <<Str("a")>>, <<Str("title")>>, <<Str("title"), Str("b")>> }

\* the schemas that hold v one level down: as a property (also one whose name
\* is a keyword) of an object with a required list, as items, inside an array
\* under a kept key, under a rejected key, and in a bare array
Wraps(v) ==
    { Obj(<<"properties", "required">>,
          <<Obj(<<pn, "b">>, <<v, PlainSchema>>), Arr(req)>>) :
        pn \in {"a", "title"}, req \in RequiredLists }
    \cup { Obj(<<"type", "items">>, <<Str("s"), v>>),
           Obj(<<"items">>, <<Arr(<<TitledSchema, v>>)>>),
           Obj(<<"anyOf", "type">>, <<Arr(<<v>>), Str("s")>>),
           Arr(<<v>>) }

RECURSIVE SchemasUpTo(_)
SchemasUpTo(d) ==
    IF d = 0 THEN Leaves
    ELSE LET below == SchemasUpTo(d - 1)
         IN  below \cup UNION {Wraps(v) : v \in below}

\* a tool schema as clients send it: a string parameter q with pattern and
\* minLength, required, with additionalProperties and $schema
ExampleSchema ==
    Obj(<<"type", "properties", "required", "additionalProperties", "$schema">>,
        <<Str("s"),
          Obj(<<"q">>, <<Obj(<<"type", "pattern", "minLength">>,
                             <<Str("s"), Str("p"), Str("1")>>)>>),
          Arr(<<Str("q")>>),
          Str("f"),
          Str("h")>>)

Schemas == SchemasUpTo(MaxDepth) \cup {ExampleSchema}

\* the schema of the request's tool
Schema == input.tools[1].input_schema

SInit ==
    /\ QueueIdle
    /\ StreamIdle
    /\ HandlerIdle
    /\ AdminIdle
    /\ input \in [messages : {<<Msg("user", StringContent("a"))>>},
                  tools : {<<Tool(n, v)>> : n \in {"t1", "t2"}, v \in Schemas}]
    /\ mcp \in Bridges
    /\ output = <<>>
    /\ cleaned = <<>>
    /\ recleaned = <<>>
    /\ phase = "ready"

\* cleanJsonSchema(tool.input_schema) (proxy.js 1071)
Sanitise ==
    /\ phase = "ready"
    /\ cleaned' = cleanJsonSchema(Schema)
    /\ phase' = "cleaned"
    /\ UNCHANGED <<exceptTrans, input, mcp, output, recleaned>>

\* cleanJsonSchema applied to its own result
Resanitise ==
    /\ phase = "cleaned"
    /\ recleaned' = cleanJsonSchema(cleaned)
    /\ phase' = "recleaned"
    /\ UNCHANGED <<exceptTrans, input, mcp, output, cleaned>>

SNext == Sanitise \/ Resanitise \/ Translate

SpecSchema == SInit /\ [][SNext]_vars

\* the declaration sent for the request's tool t
DeclarationsOf(t) ==
    {i \in DOMAIN output.functionDeclarations :
        output.functionDeclarations[i].name = t.name}

\* C6: the parameters of the outbound declaration of every tool of the
\* request's catalog hold no rejected keyword as an object key, at any depth.
C6_NoRejectedKeyword ==
    phase = "translated" =>
        \A i \in DOMAIN input.tools :
            \A d \in DeclarationsOf(input.tools[i]) :
                ~HasUnsupported(output.functionDeclarations[d].parameters)

\* C7: cleanJsonSchema(cleanJsonSchema(S)) = cleanJsonSchema(S).
C7_Idempotent == phase = "recleaned" => recleaned = cleaned

\* C7 witness: a schema whose first cleaning removed a property named like a
\* keyword and repaired `required` has been cleaned a second time.
C7_Witness ==
    /\ phase = "recleaned"
    /\ Schema.t = "o"
    /\ HasKey(Schema, "required")
    /\ HasKey(Schema, "properties")
    /\ HasKey(Get(Schema, "properties"), "title")
    /\ HasKey(cleaned, "required")
    /\ Get(cleaned, "required") # Get(Schema, "required")
    /\ HasUnsupported(Schema)
    /\ ~HasUnsupported(cleaned)

(***************************************************************************)
(* Specification of the streaming branch of POST /v1/messages (server.js   *)
(* 494-534) for one response: the upstream sends the frames of a reply,    *)
(* the reader delivers the bytes in chunks of any size.                    *)
(***************************************************************************)
MaxFrames == 3

FramePool ==
    { GeminiData(TRUE, <<TextPart("a")>>, ""),
      GeminiData(TRUE, <<TextPart("b")>>, "STOP"),
      GeminiData(TRUE, <<TextPart("a"), FunctionCall("A")>>, "MAX_TOKENS"),
      GeminiData(FALSE, <<>>, "") }

FrameSeqs == UNION {[1..n -> FramePool] : n \in 1..MaxFrames}

StInit ==
    /\ QueueIdle
    /\ TransIdle
    /\ HandlerIdle
    /\ AdminIdle
    /\ frames \in FrameSeqs
    /\ wire = Encode(frames, Len(frames))
    /\ buffer = <<>>
    /\ index = 0
    /\ lastData = <<>>
    /\ delivered = <<>>
    /\ emitted = <<>>
    /\ ended = FALSE

\* server.js 507-518: reader.read() delivers the next n bytes
ReadChunk(n) ==
    /\ ~ended
    /\ n \in 1..Len(wire)
    /\ LET parsed == parse(buffer, SubSeq(wire, 1, n))
           conv == ConvertAll(parsed.events, Len(parsed.events), index, lastData)
       IN  /\ buffer' = parsed.buffer
           /\ index' = conv.index
           /\ lastData' = conv.lastData
           /\ delivered' = delivered \o parsed.events
           /\ emitted' = emitted \o conv.events
    /\ wire' = SubSeq(wire, n + 1, Len(wire))
    /\ UNCHANGED <<exceptStream, frames, ended>>

\* server.js 508, 521-526: reader.read() reports done
EndOfStream ==
    /\ ~ended
    /\ wire = <<>>
    /\ emitted' = emitted \o finalize(lastData)
    /\ ended' = TRUE
    /\ UNCHANGED <<exceptStream, frames, wire, buffer, index, lastData, delivered>>

StNext ==
    \/ \E n \in 1..Len(wire) : ReadChunk(n)
    \/ EndOfStream

SpecStream == StInit /\ [][StNext]_vars

\* the upstream objects that carry a candidate
Bearing(fs) == SelectSeq(fs, LAMBDA g : g.candidate)

\* the parts of the upstream objects, in the order received
RECURSIVE AllParts(_, _)
AllParts(fs, n) == IF n = 0 THEN <<>> ELSE AllParts(fs, n - 1) \o fs[n].parts

\* the reply as the non-streaming endpoint returns it: one candidate with all
\* the parts and the finish reason of the last object
WholeReply(fs) ==
    LET cs == Bearing(fs)
    IN  GeminiData(cs # <<>>, AllParts(cs, Len(cs)),
                   IF cs = <<>> THEN "" ELSE cs[Len(cs)].finishReason)

RECURSIVE Texts(_, _)
Texts(items, n) ==
    IF n = 0 THEN <<>>
    ELSE Texts(items, n - 1) \o (IF items[n].text # "" THEN <<items[n].text>> ELSE <<>>)

\* the text of the text_delta events, concatenated
StreamText(events) ==
    LET deltas == SelectSeq(events, LAMBDA e : e.type = "text_delta")
    IN  Texts(deltas, Len(deltas))

\* the text of the text blocks of a message, concatenated
MessageText(message) ==
    LET blocks == SelectSeq(message.content, LAMBDA b : b.type = "text")
    IN  Texts(blocks, Len(blocks))

\* C8: when the stream has ended, the text of the emitted text_delta events
\* equals the text of the message geminiToClaudeResponse makes of the reply.
C8_StreamTextEqualsSyncText ==
    (ended /\ Bearing(frames) # <<>>) =>
        StreamText(emitted) = MessageText(geminiToClaudeResponse(WholeReply(frames)))

\* what a part contributes to the deltas: its text, or the call's arguments
DeltaOfPart(part) ==
    IF part.kind = "text" THEN <<"text_delta", part.text>>
    ELSE <<"input_json_delta", part.name>>

\* C9: for a stream with a candidate-bearing object, the events emitted up to
\* the end are: message_start (once, first), the content block events with
\* one delta per part in the order received, content_block_stop(0),
\* message_delta with the stop_reason of the last object, message_stop.
C9_EventOrder ==
    (ended /\ Bearing(frames) # <<>>) =>
        LET n == Len(emitted)
            cs == Bearing(frames)
            parts == AllParts(cs, Len(cs))
            deltas == SelectSeq(emitted, LAMBDA e : e.event = "content_block_delta")
        IN  /\ n >= 4
            /\ emitted[1].event = "message_start"
            /\ \A i \in 2..n : emitted[i].event # "message_start"
            /\ \A i \in 2..(n - 3) :
                  emitted[i].event \in {"content_block_start", "content_block_delta",
                                        "content_block_stop"}
            /\ [i \in DOMAIN deltas |-> <<deltas[i].type, deltas[i].text>>]
                  = [i \in DOMAIN parts |-> DeltaOfPart(parts[i])]
            /\ emitted[n - 2] = Ev("content_block_stop", 0, "", "")
            /\ emitted[n - 1] = Ev("message_delta", NoIndex, "",
                                   mapFinishReason(cs[Len(cs)].finishReason))
            /\ emitted[n] = Ev("message_stop", NoIndex, "", "")

\* s is an initial part of t
IsPrefix(s, t) == Len(s) <= Len(t) /\ s = SubSeq(t, 1, Len(s))

\* C29: the objects returned by the successive parse calls are, in order,
\* the frames of the upstream: at any time an initial part of them (none
\* duplicated, reordered or skipped), and all of them once the last byte is
\* read, with no frame left in the buffer.
C29_FramesDeliveredOnce ==
    /\ IsPrefix(delivered, frames)
    /\ wire = <<>> => (delivered = frames /\ buffer = <<>>)

(***************************************************************************)
(* Specification of POST /v1/messages (server.js 322-562) with the cache   *)
(* and the queue: requests arrive, wait for admission, call the upstream   *)
(* and reply.                                                              *)
(***************************************************************************)
ttl == 86400000
fetchTimeout == 60000

\* enough requests for one to find every slot taken
NumRequests == maxConcurrent + 1
MaxWaits == 1

Requests == 1..NumRequests

\* a text of a request, by what the handler reads of it: the trigger
\* phrases it includes and its length in characters
Text(phrases, length) == [phrases |-> phrases, length |-> length]

NoText == Text({}, 0)

\* server.js 110-116: the trigger phrases
TitlePhrase == "Please write a 5-10 word title"
SummaryPhrase == "Summarize this coding conversation"
TopicPhrase == "Analyze if this message indicates a new conversation topic"
IntroPhrase == "You are Claude Code"

\* String.prototype.includes
includes(content, phrase) == phrase \in content.phrases

\* server.js 116, 119: the two thresholds of the labels
warmupLength == 500
manyTools == 10

TitleText == Text({TitlePhrase}, 44)
PlainText == Text({}, 5)

\* a catalog of n tools
Catalog(n) == [i \in 1..n |-> Tool("t2", PlainSchema)]

\* req.body
Request(messages, tools, stream) ==
    [messages |-> messages, tools |-> tools, stream |-> stream]

\* a body of one user message with one text block; tools says whether
\* tools are declared
Body(text, tools, stream) ==
    Request(<<Msg("user", Blocks(<<TextBlock(text)>>))>>,
            Catalog(IF tools THEN 1 ELSE 0), stream)

BodyPool ==
    { Body(TitleText, TRUE, FALSE),
      Body(TitleText, TRUE, TRUE) }

\* server.js 108: body.messages?.[0]?.content?.[0]?.text || ''.  Element 0
\* of a string is its first character, which has no text; of the blocks only
\* a text block has one.
FirstText(body) ==
    IF Messages(body) = <<>> THEN NoText
    ELSE LET content == Messages(body)[1].content
         IN  IF content.isString \/ content.blocks = <<>> THEN NoText
             ELSE IF content.blocks[1].type = "text" THEN content.blocks[1].text
             ELSE NoText

\* server.js 107-124
identifyRequestType(body) ==
    LET content == FirstText(body)
    IN  IF includes(content, TitlePhrase) \/ includes(content, SummaryPhrase)
        THEN "TITLE"
        ELSE IF includes(content, TopicPhrase) THEN "TOPIC"
        ELSE IF includes(content, IntroPhrase) /\ content.length < warmupLength
        THEN "WARMUP"
        ELSE IF Len(body.tools) > manyTools THEN "TOOLS"
        ELSE "NORMAL"

RequestTypes == {"TITLE", "TOPIC", "WARMUP", "TOOLS", "NORMAL"}

\* server.js 332-341: the metadata requests lose their tools
StripTools(body) ==
    IF Len(body.tools) > 0
       /\ identifyRequestType(body) \in {"TITLE", "TOPIC", "WARMUP"}
    THEN [body EXCEPT !.tools = <<>>]
    ELSE body

\* a variant of the flag that takes every request for a non-streaming one
isStreaming_Never(claudeRequest) == FALSE

\* server.js 344: claudeRequest.stream === true
isStreaming(claudeRequest) == claudeRequest.stream

\* server.js 31-33: the MD5 digest of JSON.stringify(data), taken as
\* collision free: the key holds the body
generateKey(data) == <<data>>

\* a variant of the lookup that treats an entry of age ttl as expired
CacheGet_ExpiredAtTtl(c, key, t) ==
    LET entry == IF key \in DOMAIN c.cache THEN <<c.cache[key]>> ELSE <<>>
        miss == entry = <<>> \/ t - entry[1].timestamp >= ttl
    IN  [found |-> IF miss THEN <<>> ELSE <<entry[1].data>>,
         after |-> [c EXCEPT !.stats =
                      [total |-> c.stats.total + 1,
                       hits |-> c.stats.hits + (IF miss THEN 0 ELSE 1),
                       misses |-> c.stats.misses + (IF miss THEN 1 ELSE 0)]]]

\* server.js 35-46: RequestCache.get at time t; found is <<>> for null
CacheGet(c, key, t) ==
    LET entry == IF key \in DOMAIN c.cache THEN <<c.cache[key]>> ELSE <<>>
        miss == entry = <<>> \/ t - entry[1].timestamp > ttl
    IN  [found |-> IF miss THEN <<>> ELSE <<entry[1].data>>,
         after |-> [c EXCEPT !.stats =
                      [total |-> c.stats.total + 1,
                       hits |-> c.stats.hits + (IF miss THEN 0 ELSE 1),
                       misses |-> c.stats.misses + (IF miss THEN 1 ELSE 0)]]]

\* server.js 48-50: RequestCache.set at time t
CacheSet(c, key, data, t) ==
    [c EXCEPT !.cache =
        [k \in DOMAIN c.cache \cup {key} |->
            IF k = key THEN [data |-> data, timestamp |-> t] ELSE c.cache[k]]]

\* a variant of the table without the entry of status 403
errorMap_NoPermission(status) ==
    CASE status = 400 -> "invalid_request_error"
      [] status = 401 -> "authentication_error"
      [] status = 429 -> "rate_limit_error"
      [] status = 500 -> "api_error"
      [] status = 503 -> "overloaded_error"
      [] OTHER -> "api_error"

\* server.js 401-436: the error type for an upstream status
errorMap(status) ==
    CASE status = 400 -> "invalid_request_error"
      [] status = 401 -> "authentication_error"
      [] status = 403 -> "permission_error"
      [] status = 429 -> "rate_limit_error"
      [] status = 500 -> "api_error"
      [] status = 503 -> "overloaded_error"
      [] OTHER -> "api_error"

\* how the upstream call of a request ends
Outcome(kind, status, data) == [kind |-> kind, status |-> status, data |-> data]

Outcomes ==
    { Outcome("ok", 200, GeminiData(TRUE, <<TextPart("a")>>, "STOP")),
      Outcome("ok", 200, GeminiData(FALSE, <<>>, "")),
      Outcome("status", 429, GeminiData(FALSE, <<>>, "")),
      Outcome("abort", 0, GeminiData(FALSE, <<>>, "")),
      Outcome("network", 0, GeminiData(FALSE, <<>>, "")) }

\* proxy.js 1187-1201: the Dialect A message, with the id of the request
Message(messageId, translated) ==
    [id |-> messageId, content |-> translated.content,
     stop_reason |-> translated.stop_reason]

\* a call of the handler; repliedAt is the time of a reply that carries
\* X-Cache, abortAt the due time of the 60 s timer while it is armed, closed
\* the position of the handler when the client closed the connection
NoRequest ==
    [pc |-> "idle", body |-> <<>>, key |-> <<>>, messageId |-> 0,
     abortAt |-> NoTimer, repliedAt |-> 0,
     status |-> 0, xcache |-> "", error |-> "", reply |-> <<>>, events |-> <<>>,
     closed |-> ""]

HInit ==
    /\ now = Epoch
    /\ running = 0
    /\ lastRequestTime = 0
    /\ sub = [r \in Requests |-> [pc |-> "idle", wakeAt |-> NoTimer]]
    /\ cache = [cache |-> <<>>, stats |-> [hits |-> 0, misses |-> 0, total |-> 0]]
    /\ stats = [total |-> 0, cached |-> 0, errors |-> 0,
                byType |-> [ty \in RequestTypes |-> 0]]
    /\ calls = [r \in Requests |-> NoRequest]
    /\ TransIdle
    /\ StreamIdle
    /\ AdminIdle

\* a variant of the counting that leaves the cached counter alone
CountCached_Never(counters) == counters

\* server.js 349: stats.cached++
CountCached(counters) == [counters EXCEPT !.cached = @ + 1]

\* the request after queue.add moved to the position pc at time t: when the
\* slot is taken, fn starts, arms the abort timer and awaits fetch (server.js
\* 365-383)
Queued(q, pc, t) ==
    IF pc = "run" THEN [q EXCEPT !.pc = "fetch", !.abortAt = t + fetchTimeout]
    ELSE [q EXCEPT !.pc = "wait"]

\* server.js 322-365: a request arrives and runs to its first await.  The
\* requests are numbered in the order of arrival; generateMessageId draws
\* 29 random characters, taken as a fresh id.
Post(r, body) ==
    /\ calls[r].pc = "idle"
    /\ \A q \in Requests : q < r => calls[q].pc # "idle"
    /\ LET requestType == identifyRequestType(body)
           claudeRequest == StripTools(body)
           cacheKey == generateKey(claudeRequest)
           counted == [stats EXCEPT !.total = @ + 1, !.byType[requestType] = @ + 1]
           posted == [NoRequest EXCEPT !.body = body, !.key = cacheKey,
                                       !.messageId = r]
           lookup == CacheGet(cache, cacheKey, now)
           step == SlotWait(running, lastRequestTime, now)
       IN  IF ~isStreaming(claudeRequest) /\ lookup.found # <<>>
           THEN /\ cache' = lookup.after
                /\ stats' = CountCached(counted)
                /\ calls' = [calls EXCEPT ![r] =
                             [posted EXCEPT !.pc = "done", !.repliedAt = now,
                                            !.status = 200, !.xcache = "HIT",
                                            !.reply = lookup.found]]
                /\ UNCHANGED <<running, lastRequestTime, sub>>
           ELSE /\ cache' = IF isStreaming(claudeRequest) THEN cache ELSE lookup.after
                /\ stats' = counted
                /\ calls' = [calls EXCEPT ![r] = Queued(posted, step.pc, now)]
                /\ QueueStep(r, step)
    /\ UNCHANGED <<now, exceptHandler>>

\* server.js 73: the 50 ms timer of a waiting request fires
HPollWake(r) ==
    /\ calls[r].pc = "wait"
    /\ sub[r].pc = "poll"
    /\ now >= sub[r].wakeAt
    /\ LET step == SlotWait(running, lastRequestTime, now)
       IN  /\ QueueStep(r, step)
           /\ calls' = [calls EXCEPT ![r] = Queued(@, step.pc, now)]
    /\ UNCHANGED <<now, cache, stats, exceptHandler>>

\* server.js 81: the spacing timer of a waiting request fires
HSpaceWake(r) ==
    /\ calls[r].pc = "wait"
    /\ sub[r].pc = "space"
    /\ now >= sub[r].wakeAt
    /\ LET step == Admit(running, lastRequestTime, now)
       IN  /\ QueueStep(r, step)
           /\ calls' = [calls EXCEPT ![r] = Queued(@, step.pc, now)]
    /\ UNCHANGED <<now, cache, stats, exceptHandler>>

\* the reply of a request whose upstream call ended with outcome o
Replied(q, o, t) ==
    LET done == [q EXCEPT !.pc = "done", !.abortAt = NoTimer]
        translated == geminiToClaudeResponse(o.data)
    IN  CASE o.kind = "abort" ->
               [done EXCEPT !.status = 504, !.error = "timeout_error"]
          [] o.kind = "network" ->
               [done EXCEPT !.status = 500, !.error = "server_error"]
          [] o.kind = "status" ->
               [done EXCEPT !.status = 502, !.error = errorMap(o.status)]
          [] o.kind = "ok" /\ isStreaming(q.body) ->
               [done EXCEPT !.status = 200,
                            !.events = convertChunk(0, <<>>, o.data).events
                                       \o finalize(convertChunk(0, <<>>, o.data).lastData)]
          [] o.kind = "ok" /\ ~isStreaming(q.body) /\ ~translated.ok ->
               [done EXCEPT !.status = 500, !.error = "server_error"]
          [] OTHER ->
               [done EXCEPT !.status = 200, !.xcache = "MISS", !.repliedAt = t,
                            !.reply = <<Message(q.messageId, translated)>>]

\* server.js 374-552, 88-92: the upstream call of an admitted request ends,
\* the reply is written and the slot released.  The 60 s timer aborts the
\* call when it fires first.
Settle(r, o) ==
    /\ calls[r].pc = "fetch"
    /\ o.kind = "abort" => now >= calls[r].abortAt
    /\ LET replied == Replied(calls[r], o, now)
       IN  /\ calls' = [calls EXCEPT ![r] = replied]
           /\ cache' = IF replied.xcache = "MISS"
                       THEN CacheSet(cache, calls[r].key, replied.reply[1], now)
                       ELSE cache
           /\ stats' = IF replied.status = 200 THEN stats
                       ELSE [stats EXCEPT !.errors = @ + 1]
    /\ sub' = [sub EXCEPT ![r] = [pc |-> "done", wakeAt |-> NoTimer]]
    /\ running' = running - 1
    /\ UNCHANGED <<now, lastRequestTime, exceptHandler>>

Pending(pcs) == {r \in Requests : calls[r].pc \in pcs}

\* time passes: a spacing interval while a request waits for admission, the
\* upstream timeout while a call is in flight, or a day with no request
Elapse(d) ==
    /\ d \in {minInterval, fetchTimeout, ttl}
    /\ d = minInterval =>
          /\ Pending({"wait"}) # {}
          /\ (now - Epoch) % fetchTimeout < MaxWaits * minInterval
    /\ d = fetchTimeout =>
          /\ Pending({"fetch"}) # {}
          /\ (now - Epoch) % ttl < fetchTimeout
    /\ d = ttl =>
          /\ Pending({"wait", "fetch"}) = {}
          /\ Pending({"done"}) # {}
          /\ now - Epoch < ttl
    /\ now' = now + d
    /\ UNCHANGED <<running, lastRequestTime, sub, handlerVars, exceptHandler>>

HNext ==
    \/ \E r \in Requests : \E body \in BodyPool : Post(r, body)
    \/ \E r \in Requests : HPollWake(r)
    \/ \E r \in Requests : HSpaceWake(r)
    \/ \E r \in Requests : \E o \in Outcomes : Settle(r, o)
    \/ \E d \in {minInterval, fetchTimeout, ttl} : Elapse(d)

SpecHandler == HInit /\ [][HNext]_vars

\* the first non-streaming request of its fingerprint, answered from the
\* upstream with success
FirstOf(a) ==
    /\ calls[a].pc = "done"
    /\ calls[a].status = 200
    /\ ~calls[a].body.stream
    /\ \A c \in Requests : (c < a /\ calls[c].pc # "idle") => calls[c].key # calls[a].key

\* no request but a was sent to the upstream with the fingerprint of a
OnlyCall(a) ==
    \A c \in Requests :
        (c # a /\ calls[c].pc # "idle" /\ calls[c].key = calls[a].key)
            => calls[c].xcache = "HIT"

\* the request b arrives in this step with the body of a, after the reply to
\* a and not more than ttl later
RepeatArrives(a, b) ==
    /\ FirstOf(a)
    /\ OnlyCall(a)
    /\ calls[b].pc = "idle"
    /\ calls'[b].pc # "idle"
    /\ calls'[b].body = calls[a].body
    /\ now - calls[a].repliedAt <= ttl

\* C10: of two identical non-streaming requests, the second sent after the
\* successful reply to the first and within the TTL, the first is answered
\* with X-Cache: MISS and the second with X-Cache: HIT and the same body.
C10_RepeatIsHit ==
    [][\A a, b \in Requests :
          RepeatArrives(a, b) =>
              /\ calls[a].xcache = "MISS"
              /\ calls'[b].pc = "done"
              /\ calls'[b].status = 200
              /\ calls'[b].xcache = "HIT"
              /\ calls'[b].reply = calls[a].reply]_vars

\* a repeat answered from the cache exactly ttl after the reply to the first
\* request, with another request in between
C10_Witness ==
    \E a, b \in Requests :
        /\ FirstOf(a)
        /\ OnlyCall(a)
        /\ b > a + 1
        /\ \A c \in Requests : (a < c /\ c < b) => calls[c].key # calls[a].key
        /\ calls[b].pc = "done"
        /\ calls[b].body = calls[a].body
        /\ calls[b].repliedAt - calls[a].repliedAt = ttl
        /\ calls[a].xcache = "MISS"
        /\ calls[b].xcache = "HIT"
        /\ calls[b].reply = calls[a].reply

\* the step is a step of the handler for the request r
StepOf(r) == calls'[r] # calls[r]

\* C11: no step of a streaming request changes the cache map or the lookup,
\* hit and miss counters of the cache, and no streaming request is answered
\* from the cache.
C11_StreamingBypassesCache ==
    [][\A r \in Requests :
          (StepOf(r) /\ calls'[r].body.stream) =>
              /\ cache' = cache
              /\ calls'[r].xcache # "HIT"]_vars

\* a streaming request was answered with success after the same request
\* without the stream flag was stored and served from the cache
C11_Witness ==
    \E a, b, r \in Requests :
        /\ a < b /\ b < r
        /\ calls[a].xcache = "MISS"
        /\ calls[b].xcache = "HIT"
        /\ calls[b].body = calls[a].body
        /\ calls[r].pc = "done"
        /\ calls[r].body = [calls[a].body EXCEPT !.stream = TRUE]
        /\ calls[r].status = 200
        /\ calls[r].events # <<>>
        /\ calls[a].key \in DOMAIN cache.cache


(***************************************************************************)
(* Specification of the admin endpoints (server.js 158-319), the session   *)
(* store (auth.js) and the API key check of POST /v1/messages.             *)
(*                                                                         *)
(* Configuration objects: "loaded" is the object loadConfig returned; it   *)
(* is the object `requireApiKey(config)` was given when the route was      *)
(* registered (server.js 322).  "merged" is the latest object POST         *)
(* /api/config assigned to `config`.  A suspended request that holds an    *)
(* object replaced since holds "stale": nothing else refers to it.         *)
(***************************************************************************)
SESSION_DURATION == 3600000

MaxDraws == 3

\* the admin console suspends one request at a time
Admins == {"console"}

Passwords == {"admin123", "p2"}

\* a stored password: bcrypt hashes start with $2b$, other strings are plain
Plain(p) == [hashed |-> FALSE, of |-> p]

\* auth.js 22-24 (the salt is left out: only verifyPassword reads a hash)
hashPassword(password) == [hashed |-> TRUE, of |-> password]

\* auth.js 27-29
verifyPassword(password, hash) == hash.of = password

Config(adminPassword, localApiKey, geminiApiUrl) ==
    [adminPassword |-> adminPassword, localApiKey |-> localApiKey,
     geminiApiUrl |-> geminiApiUrl]

\* config.js 73-81
validateUrl(url) == url = "" \/ url = "https"

\* config.js 89-115: ok = FALSE stands for the thrown Error; key is the value
\* generateApiKey would return
validateConfig(cfg, key) ==
    LET validated ==
          [cfg EXCEPT !.adminPassword = IF @ = Plain("") THEN Plain("admin123") ELSE @,
                      !.localApiKey = IF @ = 0 THEN key ELSE @]
    IN  [ok |-> validateUrl(validated.geminiApiUrl),
         config |-> validated,
         drew |-> cfg.localApiKey = 0]

\* the request body of POST /api/config: <<>> for a field that is absent
Patch(adminPassword, localApiKey, geminiApiUrl) ==
    [adminPassword |-> adminPassword, localApiKey |-> localApiKey,
     geminiApiUrl |-> geminiApiUrl]

\* the key a client chooses itself
ChosenKey == 0 - 2

PatchPool ==
    { Patch(<<>>, <<>>, <<>>),
      Patch(<<"p2">>, <<>>, <<>>),
      Patch(<<>>, <<ChosenKey>>, <<>>),
      Patch(<<>>, <<>>, <<"http">>) }

\* server.js 209: { ...config, ...updates }
Merge(cfg, updates) ==
    [adminPassword |-> IF updates.adminPassword = <<>> THEN cfg.adminPassword
                       ELSE Plain(updates.adminPassword[1]),
     localApiKey |-> IF updates.localApiKey = <<>> THEN cfg.localApiKey
                     ELSE updates.localApiKey[1],
     geminiApiUrl |-> IF updates.geminiApiUrl = <<>> THEN cfg.geminiApiUrl
                      ELSE updates.geminiApiUrl[1]]

\* the session tokens a request may present: every token drawn so far,
\* whether in the store, purged or cleared, and 0 for an absent one
Presented == 0..rand

\* the object `config` refers to
CurrentConfig == heap[config]

\* an assignment to a field of the object held as ref
WriteField(h, ref, cfg) == IF ref \in DOMAIN h THEN [h EXCEPT ![ref] = cfg] ELSE h

\* auth.js 37-46: createSession at time t with the token drawn
createSession(store, token, t) ==
    [k \in DOMAIN store \cup {token} |->
        IF k = token THEN [createdAt |-> t, expiresAt |-> t + SESSION_DURATION]
        ELSE store[k]]

DeleteSession(store, token) == [k \in DOMAIN store \ {token} |-> store[k]]

\* auth.js 49-59: the verdict and the store it leaves
validateSession(store, token, t) ==
    IF token \notin DOMAIN store THEN [ok |-> FALSE, store |-> store]
    ELSE IF t > store[token].expiresAt
    THEN [ok |-> FALSE, store |-> DeleteSession(store, token)]
    ELSE [ok |-> TRUE, store |-> store]

\* a variant of the clearing that ends the session of the caller only
clearAllSessions_OnlyCaller(store, token) == DeleteSession(store, token)

\* auth.js 67-69 (token: the session of the request that clears)
clearAllSessions(store, token) == <<>>

\* auth.js 88-113, server.js 322: the middleware reads the object it was
\* given at registration
requireApiKey(h, key) == key # 0 /\ key = h["loaded"].localApiKey

Idle == [kind |-> "", pc |-> "idle", token |-> 0, password |-> "",
         verdict |-> FALSE, ref |-> ""]

\* a reply: the endpoint and the HTTP status
Reply(kind, status) == [kind |-> kind, status |-> status]

AInit ==
    /\ now = Epoch
    /\ \E stored \in {Plain("admin123"), hashPassword("admin123")} :
          /\ heap = [loaded |-> Config(stored, 1, "https")]
          /\ disk = IF stored.hashed THEN <<Config(stored, 1, "https")>> ELSE <<>>
    /\ config = "loaded"
    /\ sessions = <<>>
    /\ rand = 1
    /\ inflight = [a \in Admins |-> Idle]
    /\ reply = <<>>
    /\ running = 0
    /\ lastRequestTime = 0
    /\ sub = <<>>
    /\ TransIdle
    /\ StreamIdle
    /\ HandlerIdle

AdminFrame == UNCHANGED <<now, exceptAdmin>>

\* server.js 159-171: POST /api/login up to its first await
LoginStart(a, password) ==
    /\ inflight[a].pc = "idle"
    /\ password \in Passwords \cup {""}
    /\ LET stored == CurrentConfig.adminPassword
       IN  IF password = ""
           THEN /\ reply' = Reply("login", 400)
                /\ UNCHANGED inflight
           ELSE IF stored.hashed
           THEN /\ inflight' = [inflight EXCEPT ![a] =
                                  [Idle EXCEPT !.kind = "login", !.pc = "verify",
                                               !.verdict = verifyPassword(password, stored)]]
                /\ UNCHANGED reply
           ELSE IF password # stored.of
           THEN /\ reply' = Reply("login", 401)
                /\ UNCHANGED inflight
           ELSE /\ inflight' = [inflight EXCEPT ![a] =
                                  [Idle EXCEPT !.kind = "login", !.pc = "hash",
                                               !.password = password, !.ref = config]]
                /\ UNCHANGED reply
    /\ UNCHANGED <<heap, config, disk, sessions, rand>>
    /\ AdminFrame

\* server.js 168-183: the await of login ends.  saved: whether saveConfig
\* could write the file (its result is not read here)
LoginFinish(a, saved) ==
    /\ inflight[a].kind = "login"
    /\ inflight[a].pc \in {"verify", "hash"}
    /\ rand < MaxDraws
    /\ LET op == inflight[a]
           written == IF op.pc = "hash"
                      THEN WriteField(heap, op.ref,
                              [heap[op.ref] EXCEPT !.adminPassword = hashPassword(op.password)])
                      ELSE heap
       IN  IF op.pc = "verify" /\ ~op.verdict
           THEN /\ reply' = Reply("login", 401)
                /\ UNCHANGED <<heap, disk, sessions, rand>>
           ELSE /\ heap' = written
                /\ disk' = IF op.pc = "hash" /\ saved THEN <<written[config]>> ELSE disk
                /\ sessions' = createSession(sessions, rand + 1, now)
                /\ rand' = rand + 1
                /\ reply' = Reply("login", 200)
    /\ inflight' = [inflight EXCEPT ![a] = Idle]
    /\ UNCHANGED config
    /\ AdminFrame

\* server.js 193-203: GET /api/config
GetConfig(token) ==
    /\ token \in Presented
    /\ LET session == validateSession(sessions, token, now)
       IN  /\ sessions' = session.store
           /\ reply' = Reply("get-config", IF session.ok THEN 200 ELSE 401)
    /\ UNCHANGED <<heap, config, disk, rand, inflight>>
    /\ AdminFrame

\* the requests suspended with the object `config` refers to keep an object
\* nothing else refers to once `config` is assigned
Orphaned(ops) ==
    [a \in DOMAIN ops |-> IF ops[a].ref = "merged" THEN [ops[a] EXCEPT !.ref = "stale"]
                          ELSE ops[a]]

\* server.js 206-227: POST /api/config
PutConfig(token, updates, saved) ==
    /\ token \in Presented
    /\ updates \in PatchPool
    /\ rand < MaxDraws
    /\ LET session == validateSession(sessions, token, now)
           validated == validateConfig(Merge(CurrentConfig, updates), rand + 1)
       IN  /\ sessions' = session.store
           /\ IF ~session.ok
              THEN /\ reply' = Reply("put-config", 401)
                   /\ UNCHANGED <<heap, config, disk, rand, inflight>>
              ELSE IF ~validated.ok
              THEN /\ reply' = Reply("put-config", 400)
                   /\ rand' = IF validated.drew THEN rand + 1 ELSE rand
                   /\ UNCHANGED <<heap, config, disk, inflight>>
              ELSE IF ~saved
              THEN /\ reply' = Reply("put-config", 500)
                   /\ rand' = IF validated.drew THEN rand + 1 ELSE rand
                   /\ UNCHANGED <<heap, config, disk, inflight>>
              ELSE /\ heap' = [loaded |-> heap["loaded"], merged |-> validated.config]
                   /\ config' = "merged"
                   /\ disk' = <<validated.config>>
                   /\ inflight' = Orphaned(inflight)
                   /\ rand' = IF validated.drew THEN rand + 1 ELSE rand
                   /\ reply' = Reply("put-config", 200)
    /\ AdminFrame

\* server.js 263-279: POST /api/generate-key
GenerateKey(token, saved) ==
    /\ token \in Presented
    /\ rand < MaxDraws
    /\ LET session == validateSession(sessions, token, now)
           written == [heap EXCEPT ![config].localApiKey = rand + 1]
       IN  /\ sessions' = session.store
           /\ IF ~session.ok
              THEN /\ reply' = Reply("generate-key", 401)
                   /\ UNCHANGED <<heap, disk, rand>>
              ELSE /\ heap' = written
                   /\ rand' = rand + 1
                   /\ disk' = IF saved THEN <<written[config]>> ELSE disk
                   /\ reply' = IF saved THEN Reply("generate-key", 200)
                               ELSE Reply("generate-key", 500)
    /\ UNCHANGED <<config, inflight>>
    /\ AdminFrame

\* server.js 281-303: POST /api/change-password up to its first await
ChangePasswordStart(a, token, currentPassword, newPassword) ==
    /\ inflight[a].pc = "idle"
    /\ token \in Presented
    /\ currentPassword \in Passwords
    /\ newPassword \in Passwords \cup {""}
    /\ LET session == validateSession(sessions, token, now)
           stored == CurrentConfig.adminPassword
           op == [Idle EXCEPT !.kind = "change-password", !.token = token,
                              !.password = newPassword]
       IN  /\ sessions' = session.store
           /\ IF ~session.ok
              THEN /\ reply' = Reply("change-password", 401)
                   /\ UNCHANGED inflight
              ELSE IF newPassword = ""
              THEN /\ reply' = Reply("change-password", 400)
                   /\ UNCHANGED inflight
              ELSE IF stored.hashed
              THEN /\ inflight' = [inflight EXCEPT ![a] =
                                     [op EXCEPT !.pc = "verify",
                                                !.verdict = verifyPassword(currentPassword, stored)]]
                   /\ UNCHANGED reply
              ELSE IF currentPassword # stored.of
              THEN /\ reply' = Reply("change-password", 401)
                   /\ UNCHANGED inflight
              ELSE /\ inflight' = [inflight EXCEPT ![a] =
                                     [op EXCEPT !.pc = "hash", !.ref = config]]
                   /\ UNCHANGED reply
    /\ UNCHANGED <<heap, config, disk, rand>>
    /\ AdminFrame

\* server.js 292-304: verifyPassword settles; hashPassword is awaited with the
\* object of `config.adminPassword = ...` already taken
ChangePasswordVerified(a) ==
    /\ inflight[a].kind = "change-password"
    /\ inflight[a].pc = "verify"
    /\ IF inflight[a].verdict
       THEN /\ inflight' = [inflight EXCEPT ![a].pc = "hash", ![a].ref = config]
            /\ UNCHANGED reply
       ELSE /\ inflight' = [inflight EXCEPT ![a] = Idle]
            /\ reply' = Reply("change-password", 401)
    /\ UNCHANGED <<heap, config, disk, sessions, rand>>
    /\ AdminFrame

\* server.js 304-312: hashPassword settles, the hash is stored, the
\* configuration saved and the sessions cleared
ChangePasswordFinish(a, saved) ==
    /\ inflight[a].kind = "change-password"
    /\ inflight[a].pc = "hash"
    /\ LET op == inflight[a]
           written == WriteField(heap, op.ref,
                         [heap[op.ref] EXCEPT !.adminPassword = hashPassword(op.password)])
       IN  /\ heap' = written
           /\ IF saved
              THEN /\ disk' = <<written[config]>>
                   /\ sessions' = clearAllSessions(sessions, op.token)
                   /\ reply' = Reply("change-password", 200)
              ELSE /\ reply' = Reply("change-password", 500)
                   /\ UNCHANGED <<disk, sessions>>
    /\ inflight' = [inflight EXCEPT ![a] = Idle]
    /\ UNCHANGED <<config, rand>>
    /\ AdminFrame

\* auth.js 88-113: the API key check of POST /v1/messages; key 0 stands for
\* a request without the authorization header
Authenticate(key) ==
    /\ key \in 0..rand \cup {ChosenKey}
    /\ reply' = Reply("messages", IF requireApiKey(heap, key) THEN 200 ELSE 401)
    /\ UNCHANGED <<heap, config, disk, sessions, rand, inflight>>
    /\ AdminFrame

\* an hour passes while a session is open
AdminElapse ==
    /\ now < Epoch + 2 * SESSION_DURATION
    /\ sessions # <<>>
    /\ now' = now + SESSION_DURATION
    /\ UNCHANGED <<adminVars, exceptAdmin>>

ANext ==
    \/ \E a \in Admins : \E password \in Passwords \cup {""} : LoginStart(a, password)
    \/ \E a \in Admins : \E saved \in BOOLEAN : LoginFinish(a, saved)
    \/ \E token \in Presented : GetConfig(token)
    \/ \E token \in Presented : \E updates \in PatchPool : \E saved \in BOOLEAN :
          PutConfig(token, updates, saved)
    \/ \E token \in Presented : \E saved \in BOOLEAN : GenerateKey(token, saved)
    \/ \E a \in Admins : \E token \in Presented :
          \E currentPassword \in Passwords : \E newPassword \in Passwords \cup {""} :
             ChangePasswordStart(a, token, currentPassword, newPassword)
    \/ \E a \in Admins : ChangePasswordVerified(a)
    \/ \E a \in Admins : \E saved \in BOOLEAN : ChangePasswordFinish(a, saved)
    \/ \E key \in 0..rand \cup {ChosenKey} : Authenticate(key)
    \/ AdminElapse

SpecAdmin == AInit /\ [][ANext]_vars

\* the password POST /api/login accepts
AcceptedPassword == CurrentConfig.adminPassword.of

\* the request suspended as a completes POST /api/change-password with
\* success in this step
ChangePasswordSucceeds(a) ==
    /\ inflight[a].kind = "change-password"
    /\ inflight[a].pc = "hash"
    /\ inflight'[a].pc = "idle"
    /\ reply' = Reply("change-password", 200)

\* requireSession rejects every token that was in the store before the step
EarlierTokensRejected ==
    \A token \in DOMAIN sessions : ~validateSession(sessions', token, now').ok

\* C12: when Change password succeeds, every session token issued before it
\* is rejected by requireSession: none of them is left in the store.
C12_ChangePasswordClearsSessions ==
    [][\A a \in Admins :
          ChangePasswordSucceeds(a) =>
              /\ EarlierTokensRejected
              /\ \A token \in DOMAIN sessions : token \notin DOMAIN sessions']_vars

\* Change password succeeded with two sessions issued before it, the one of
\* the caller and another one
C12_Witness ==
    /\ reply = Reply("change-password", 200)
    /\ sessions = <<>>
    /\ rand = 3
    /\ heap["loaded"].localApiKey = 1
    /\ CurrentConfig.localApiKey \in {1, ChosenKey}
    /\ AcceptedPassword = "p2"
    /\ now = Epoch

\* C13: whenever the password that Login accepts changes, every session
\* token issued before the change is rejected afterwards.
C13_PasswordChangeClearsSessions ==
    [][AcceptedPassword' # AcceptedPassword => EarlierTokensRejected]_vars

\* the keys a request may present
PresentedKeys == 1..rand \cup {ChosenKey}

\* C14: POST /v1/messages accepts a bearer token exactly when it equals the
\* localApiKey of the current configuration.
C14_CurrentKeyAuthenticates ==
    \A key \in PresentedKeys :
        requireApiKey(heap, key) <=> key = CurrentConfig.localApiKey

\* the step is a session-protected request with the token, answered with
\* the status
Validated(token, status) ==
    /\ GetConfig(token)
    /\ reply'.status = status

\* C28: a token is accepted only if it is in the store, where Login put it
\* with expiresAt = createdAt + 1 h, and less than 1 h has passed since its
\* creation; a rejected token is not in the store afterwards, and a token
\* drawn earlier that is not in the store never enters it again.
C28_SessionLifetime ==
    [][\A token \in Presented :
          /\ Validated(token, 200) =>
                /\ token \in DOMAIN sessions
                /\ sessions[token].expiresAt = sessions[token].createdAt + SESSION_DURATION
                /\ now - sessions[token].createdAt < SESSION_DURATION
          /\ Validated(token, 401) => token \notin DOMAIN sessions'
          /\ token \notin DOMAIN sessions => token \notin DOMAIN sessions']_vars

(***************************************************************************)
(* Specification of the generation parameters: claudeToGeminiRequest on    *)
(* requests that differ in their parameters only.                          *)
(***************************************************************************)
MaxTokenValue == 130

TokenValues == (0 - MaxTokenValue)..MaxTokenValue

PlainRequest == [messages |-> <<Msg("user", StringContent("a"))>>, tools |-> <<>>]

WithMaxTokens(request, n) ==
    [name \in DOMAIN request \cup {"max_tokens"} |->
        IF name = "max_tokens" THEN n ELSE request[name]]

GInit ==
    /\ QueueIdle
    /\ StreamIdle
    /\ HandlerIdle
    /\ AdminIdle
    /\ input \in {PlainRequest} \cup {WithMaxTokens(PlainRequest, n) : n \in TokenValues}
    /\ mcp = NoMcp
    /\ output = <<>>
    /\ cleaned = <<>>
    /\ recleaned = <<>>
    /\ phase = "ready"

GNext == Translate

SpecGeneration == GInit /\ [][GNext]_vars

\* C15: max_tokens below 100 (0 and negative values included) and an absent
\* max_tokens give maxOutputTokens 4096; 100 or more is passed through.
C15_MaxOutputTokens ==
    phase = "translated" =>
        output.maxOutputTokens =
            (IF "max_tokens" \notin DOMAIN input THEN 4096
             ELSE IF input.max_tokens < 100 THEN 4096
             ELSE input.max_tokens)

\* a negative max_tokens was translated
C15_Witness ==
    /\ phase = "translated"
    /\ "max_tokens" \in DOMAIN input
    /\ input.max_tokens = 0 - 1
    /\ output.maxOutputTokens = 4096

\* the step is the cache read of the request r (server.js 346-347), which
\* finds an entry under the key of the request
ReadsEntry(r) ==
    /\ calls[r].pc = "idle"
    /\ calls'[r].pc # "idle"
    /\ ~calls'[r].body.stream
    /\ calls'[r].key \in DOMAIN cache.cache

\* C19: a read of an entry older than ttl is a miss and removes the entry
\* from the cache map; a read of an entry within ttl is a hit and returns
\* the stored response.
C19_ExpiredReadEvicts ==
    [][\A r \in Requests :
          ReadsEntry(r) =>
              LET entry == cache.cache[calls'[r].key]
              IN  IF now - entry.timestamp > ttl
                  THEN /\ calls'[r].xcache # "HIT"
                       /\ cache'.stats.misses = cache.stats.misses + 1
                       /\ calls'[r].key \notin DOMAIN cache'.cache
                  ELSE /\ calls'[r].xcache = "HIT"
                       /\ calls'[r].reply = <<entry.data>>
                       /\ cache'.stats.hits = cache.stats.hits + 1]_vars

(***************************************************************************)
(* One request of POST /v1/messages against every answer of the upstream:  *)
(* each error status, a success, a connection failure and the timeout.     *)
(***************************************************************************)

\* the error statuses an upstream answer is drawn from: 400 and the
\* statuses after it
MaxStatuses == 200

ErrorStatuses == 400 .. (399 + MaxStatuses)

\* server.js 396: an answer whose status is outside 200..299 (!response.ok)
ErrorAnswer(status) == Outcome("status", status, GeminiData(FALSE, <<>>, ""))

UpstreamOutcomes == Outcomes \cup {ErrorAnswer(status) : status \in ErrorStatuses}

\* the bodies of the request: a metadata or an ordinary text, with or without
\* tools, streaming or not
UpstreamBodies ==
    {Body(text, tools, stream) :
        text \in {TitleText, PlainText}, tools \in BOOLEAN, stream \in BOOLEAN}

UInit == HInit

UNext ==
    \/ \E body \in UpstreamBodies : Post(1, body)
    \/ \E o \in UpstreamOutcomes : Settle(1, o)
    \/ Elapse(fetchTimeout)

SpecUpstream == UInit /\ [][UNext]_vars

\* the error type the table of the specification gives for a status
MappedType(status) ==
    CASE status = 400 -> "invalid_request_error"
      [] status = 401 -> "authentication_error"
      [] status = 403 -> "permission_error"
      [] status = 429 -> "rate_limit_error"
      [] status = 503 -> "overloaded_error"
      [] OTHER -> "api_error"

NetworkFailure == Outcome("network", 0, GeminiData(FALSE, <<>>, ""))

Timeout == Outcome("abort", 0, GeminiData(FALSE, <<>>, ""))

\* C17: a connection failure of the upstream call is answered 502 with
\* api_error, and a call cancelled by the 60 s timer is answered 504 with
\* timeout_error.
C17_NetworkAndTimeout ==
    [][\A r \in Requests :
          /\ Settle(r, NetworkFailure) =>
                /\ calls'[r].status = 502
                /\ calls'[r].error = "api_error"
          /\ Settle(r, Timeout) =>
                /\ now >= calls[r].abortAt
                /\ calls'[r].status = 504
                /\ calls'[r].error = "timeout_error"]_vars

\* the upstream answers with success and a body without candidates
NoCandidates == Outcome("ok", 200, GeminiData(FALSE, <<>>, ""))

\* C23: when the upstream reply to a non-streaming call has no candidate,
\* the request fails with an error envelope of kind upstream_error.
C23_NoCandidateIsUpstreamError ==
    [][\A r \in Requests :
          (Settle(r, NoCandidates) /\ ~isStreaming(calls[r].body)) =>
              /\ calls'[r].status # 200
              /\ calls'[r].reply = <<>>
              /\ calls'[r].error = "upstream_error"]_vars

(***************************************************************************)
(* The label of a request and the tools of the forwarded request           *)
(* (server.js 322-366): input is req.body as received, output the request  *)
(* sent upstream.                                                          *)
(***************************************************************************)

\* texts with each trigger phrase, the self-introduction below and at the
\* length threshold, a text without any trigger, and the empty text
MaxSlack == 1

TextPool ==
    { Text({TitlePhrase}, 44), Text({SummaryPhrase}, 60), Text({TopicPhrase}, 80),
      PlainText, NoText }
    \cup {Text({IntroPhrase}, n) :
            n \in (warmupLength - MaxSlack) .. (warmupLength + MaxSlack - 1)}

\* the content of the first message: a plain string, one text block, or a
\* text block after an image
ContentPool ==
    UNION { {StringContent(text), Blocks(<<TextBlock(text)>>),
             Blocks(<<ImageBlock("i"), TextBlock(text)>>)} : text \in TextPool }

\* catalogs: none, a few tools, and one more than manyTools
CatalogSizes == {0, 3, manyTools, manyTools + 1}

CInit ==
    /\ QueueIdle
    /\ StreamIdle
    /\ HandlerIdle
    /\ AdminIdle
    /\ input \in {Request(<<Msg("user", content)>>, Catalog(n), FALSE) :
                    content \in ContentPool, n \in CatalogSizes}
    /\ mcp = NoMcp
    /\ output = <<>>
    /\ cleaned = <<>>
    /\ recleaned = <<>>
    /\ phase = "ready"

\* server.js 322-366: the request is labelled, stripped of its tools when
\* the label asks for it, and translated
Forward ==
    /\ phase = "ready"
    /\ output' = claudeToGeminiRequest(StripTools(input), mcp)
    /\ phase' = "translated"
    /\ UNCHANGED <<exceptTrans, input, mcp, cleaned, recleaned>>

CNext == Forward

SpecClassify == CInit /\ [][CNext]_vars

\* the first text of the first user message, whatever the shape of the
\* content
FirstUserText(body) ==
    LET content == body.messages[1].content
        texts == {i \in DOMAIN content.blocks : content.blocks[i].type = "text"}
    IN  IF content.isString THEN content.text
        ELSE IF texts = {} THEN NoText
        ELSE content.blocks[CHOOSE i \in texts : \A j \in texts : i <= j].text

\* the request is a metadata request: a title or summary request, a topic
\* detection, or a short self-introduction
IsMetadata(body) ==
    LET text == FirstUserText(body)
    IN  \/ TitlePhrase \in text.phrases
        \/ SummaryPhrase \in text.phrases
        \/ TopicPhrase \in text.phrases
        \/ IntroPhrase \in text.phrases /\ text.length < warmupLength

\* C18: a metadata request is forwarded without tools and without
\* tool_config, whatever its catalog and the shape of its content; every
\* other request is forwarded with a declaration for each of its tools.
C18_MetadataRequestsLoseTools ==
    phase = "translated" =>
        /\ "tool_config" \notin output.keys
        /\ IF IsMetadata(input)
           THEN ~output.hasTools /\ output.functionDeclarations = <<>>
           ELSE /\ output.hasTools = (input.tools # <<>>)
                /\ Len(output.functionDeclarations) = Len(input.tools)

(***************************************************************************)
(* The handler with clients that close their connection while the request  *)
(* waits for admission or while the streaming reply is read.               *)
(***************************************************************************)
\* server.js 374-503: fetch resolves with a success status for a streaming
\* request; the abort timer is cleared, the headers are set and the reader
\* is taken
Headers(r) ==
    /\ calls[r].pc = "fetch"
    /\ isStreaming(calls[r].body)
    /\ calls' = [calls EXCEPT ![r].pc = "stream", ![r].abortAt = NoTimer]
    /\ UNCHANGED <<now, running, lastRequestTime, sub, cache, stats, exceptHandler>>

\* server.js 506-525, 88-92: reader.read() reports done; the events of the
\* reply are written, the response is ended and the slot released
StreamEnd(r, o) ==
    /\ calls[r].pc = "stream"
    /\ o.kind = "ok"
    /\ calls' = [calls EXCEPT ![r] = Replied(calls[r], o, now)]
    /\ sub' = [sub EXCEPT ![r] = [pc |-> "done", wakeAt |-> NoTimer]]
    /\ running' = running - 1
    /\ UNCHANGED <<now, lastRequestTime, cache, stats, exceptHandler>>

\* the client of a pending request closes its connection.  The handler
\* registers no listener on req or res (server.js 322-562) and add has no
\* way to leave its loops (server.js 70-93): nothing of the program changes.
Disconnect(r) ==
    /\ calls[r].pc \in {"wait", "fetch", "stream"}
    /\ calls[r].closed = ""
    /\ calls' = [calls EXCEPT ![r].closed = calls[r].pc]
    /\ UNCHANGED <<now, running, lastRequestTime, sub, cache, stats, exceptHandler>>

\* the requests are streaming requests; the upstream call fails or the
\* upstream ends the stream
StreamingBody == Body(TitleText, TRUE, TRUE)

StreamOutcomes == {o \in Outcomes : o.kind = "network" \/ (o.kind = "ok" /\ o.data.candidate)}

DNext ==
    \/ \E r \in Requests : Post(r, StreamingBody)
    \/ \E r \in Requests : HPollWake(r)
    \/ \E r \in Requests : HSpaceWake(r)
    \/ \E r \in Requests : \E o \in StreamOutcomes : Settle(r, o)
    \/ \E r \in Requests : Headers(r)
    \/ \E r \in Requests : \E o \in StreamOutcomes : StreamEnd(r, o)
    \/ \E r \in Requests : Disconnect(r)
    \/ \E d \in {minInterval, fetchTimeout} : Elapse(d)

SpecDisconnect == HInit /\ [][DNext]_vars

\* the request holds a slot of the queue
HoldsSlot(r) == calls[r].pc \in {"fetch", "stream"}

\* C21: a request whose client disconnected while it waited for admission
\* never holds a slot and never gets a reply from an upstream call; a
\* request whose client disconnected during the streaming reply holds its
\* slot no longer.
C21_DisconnectWithdraws ==
    \A r \in Requests :
        /\ calls[r].closed = "wait" => (~HoldsSlot(r) /\ calls[r].pc # "done")
        /\ calls[r].closed = "stream" => ~HoldsSlot(r)

(***************************************************************************)
(* The stream read loop with an upstream that stays silent between chunks  *)
(* (server.js 500-534).                                                    *)
(***************************************************************************)
streamTimeout == 30000

MaxSilences == 2

\* more than streamTimeout passes without a chunk while reader.read() is
\* pending; the loop holds no timer and reads no clock
Silence ==
    /\ ~ended
    /\ now - Epoch < MaxSilences * (streamTimeout + pollInterval)
    /\ now' = now + streamTimeout + pollInterval
    /\ UNCHANGED <<running, lastRequestTime, sub, transVars, streamVars,
                   handlerVars, adminVars>>

SilNext ==
    \/ \E n \in 1..Len(wire) : ReadChunk(n)
    \/ EndOfStream
    \/ Silence

SpecSilence == StInit /\ [][SilNext]_vars

StreamTimeoutEvent == Ev("error", NoIndex, "stream_timeout", "")

\* C22: when more than 30 s pass on an open stream without a chunk, the
\* gateway writes the error event stream_timeout, ends the response and
\* reads the upstream no more; nothing is written after the response ended.
C22_StreamTimeout ==
    [][/\ (~ended /\ now' - now > streamTimeout) =>
              /\ ended'
              /\ emitted' = emitted \o <<StreamTimeoutEvent>>
              /\ wire' = wire
       /\ ended => emitted' = emitted]_vars

(***************************************************************************)
(* Requests without messages and messages without a role, labelled and     *)
(* translated by the handler (server.js 322-366, proxy.js 665-668).        *)
(***************************************************************************)
MaxTurns == 2

RolePool == {NoRole, "user", "assistant"}

TurnPool ==
    {Msg(role, content) :
        role \in RolePool,
        content \in {StringContent(PlainText), Blocks(<<TextBlock(TitleText)>>)}}

\* a body without the messages field
WithoutMessages(tools) == [tools |-> tools, stream |-> FALSE]

MInit ==
    /\ QueueIdle
    /\ StreamIdle
    /\ HandlerIdle
    /\ AdminIdle
    /\ input \in {WithoutMessages(Catalog(n)) : n \in {0, 1}}
                 \cup {Request(ms, Catalog(n), FALSE) :
                         ms \in UNION {[1..k -> TurnPool] : k \in 0..MaxTurns},
                         n \in {0, 1}}
    /\ mcp = NoMcp
    /\ output = <<>>
    /\ cleaned = <<>>
    /\ recleaned = <<>>
    /\ phase = "ready"

MNext == Forward

SpecMalformed == MInit /\ [][MNext]_vars

\* the request has no messages field, or it has messages and none of them
\* has a role
Untranslatable(request) ==
    \/ "messages" \notin DOMAIN request
    \/ /\ request.messages # <<>>
       /\ \A i \in DOMAIN request.messages : request.messages[i].role = NoRole

\* the failure of the translator: no outbound request
TranslationError == [error |-> "translation_error"]

\* C24: for a request without messages, or whose messages all lack a role,
\* the translator fails with translation_error and produces no outbound
\* request.
C24_TranslationError ==
    (phase = "translated" /\ Untranslatable(input)) => output = TranslationError

(***************************************************************************)
(* The translator applied to requests that carry tool results of every     *)
(* content type, with and without the error flag (proxy.js 702-733).       *)
(***************************************************************************)
ResultContents ==
    { Str("r"), Arr(<<Str("r")>>), Undefined, Obj(<<>>, <<>>),
      Obj(<<"out">>, <<Str("r")>>),
      Obj(<<"error", "out">>, <<Str("no"), Str("r")>>) }

ResultBlocks ==
    {ToolResultOf("1", content, is_error) :
        content \in ResultContents, is_error \in BOOLEAN}

\* a tool call of the model, answered by one or two results, with or
\* without a text
ResultTurns ==
    {<<b>> : b \in ResultBlocks}
    \cup {<<b, TextBlock("a")>> : b \in ResultBlocks}
    \cup {<<a, b>> : a \in ResultBlocks, b \in ResultBlocks}

FInit ==
    /\ QueueIdle
    /\ StreamIdle
    /\ HandlerIdle
    /\ AdminIdle
    /\ input \in {[messages |-> <<Msg("user", StringContent("a")),
                                 Msg("assistant", Blocks(<<ToolUse("1", "A")>>)),
                                 Msg("user", Blocks(bs))>>,
                   tools |-> <<Tool("A", PlainSchema)>>] : bs \in ResultTurns}
    /\ mcp = NoMcp
    /\ output = <<>>
    /\ cleaned = <<>>
    /\ recleaned = <<>>
    /\ phase = "ready"

FNext == Translate

SpecFrame == FInit /\ [][FNext]_vars

\* C25: the translator never mutates its input: after the call the request,
\* its messages, their blocks and the tool schemas are what they were.
C25_InputUnchanged ==
    [][phase' = "translated" => input' = input]_vars

(***************************************************************************)
(* The translator applied to requests with the optional fields             *)
(* tool_choice, response_format and temperature (proxy.js 786-816,         *)
(* 1018-1110).                                                             *)
(***************************************************************************)
\* the request with one more field
WithField(request, name, value) ==
    [n \in DOMAIN request \cup {name} |-> IF n = name THEN value ELSE request[n]]

\* the request with each of the fields that has a value (<<>>: absent)
RECURSIVE WithFields(_, _, _)
WithFields(request, names, values) ==
    IF names = <<>> THEN request
    ELSE WithFields(IF Head(values) = <<>> THEN request
                    ELSE WithField(request, Head(names), Head(values)[1]),
                    Tail(names), Tail(values))

ToolChoices == {<<>>} \cup {<<[type |-> ty]>> : ty \in {"auto", "any", "tool", "none"}}

ResponseFormats ==
    {<<>>}
    \cup {<<[type |-> ty]>> : ty \in {"text", "json_object", "json_schema"}}
    \cup {<<[type |-> ty, schema |-> TitledSchema]>> :
            ty \in {"text", "json_object", "json_schema"}}

Temperatures == {<<>>, <<1>>}

OInit ==
    /\ QueueIdle
    /\ StreamIdle
    /\ HandlerIdle
    /\ AdminIdle
    /\ input \in {WithFields([messages |-> <<Msg("user", StringContent("a"))>>,
                              tools |-> Catalog(n)],
                             <<"tool_choice", "response_format", "temperature">>,
                             <<choice, format, temperature>>) :
                    n \in {0, 1}, choice \in ToolChoices,
                    format \in ResponseFormats, temperature \in Temperatures}
    /\ mcp = NoMcp
    /\ output = <<>>
    /\ cleaned = <<>>
    /\ recleaned = <<>>
    /\ phase = "ready"

ONext == Translate

SpecOptions == OInit /\ [][ONext]_vars

\* the mode the specification gives for a tool_choice
ModeOf(choice) ==
    CASE choice.type = "auto" -> "AUTO"
      [] choice.type = "any" -> "ANY"
      [] choice.type = "tool" -> "ANY"
      [] choice.type = "none" -> "NONE"

\* tool_config.function_calling_config.mode of the outbound request
SentMode(request) ==
    IF "tool_config" \in request.keys
    THEN <<request.tool_config.function_calling_config.mode>>
    ELSE <<>>

\* C26: a request with tool_choice is forwarded with
\* tool_config.function_calling_config.mode set to AUTO for auto, ANY for any
\* and tool, NONE for none; a request without tool_choice is forwarded
\* without tool_config.
C26_ToolChoice ==
    phase = "translated" =>
        IF "tool_choice" \in DOMAIN input
        THEN SentMode(output) = <<ModeOf(input.tool_choice)>>
        ELSE SentMode(output) = <<>>

\* response_format asks for JSON output
WantsJson(request) ==
    /\ "response_format" \in DOMAIN request
    /\ request.response_format.type \in {"json_object", "json_schema"}

\* generationConfig.responseJsonSchema of the outbound request
SentSchema(request) ==
    IF "responseJsonSchema" \in request.generationConfig
    THEN <<request.responseJsonSchema>>
    ELSE <<>>

\* C27: when response_format.type is json_object or json_schema, the
\* outbound generationConfig has responseMimeType, and the sanitised schema
\* as responseJsonSchema when response_format.schema is present; otherwise
\* neither field is set.
C27_ResponseFormat ==
    phase = "translated" =>
        IF WantsJson(input)
        THEN /\ "responseMimeType" \in output.generationConfig
             /\ SentSchema(output) =
                   IF "schema" \in DOMAIN input.response_format
                   THEN <<cleanJsonSchema(input.response_format.schema)>>
                   ELSE <<>>
        ELSE /\ "responseMimeType" \notin output.generationConfig
             /\ SentSchema(output) = <<>>

(***************************************************************************)
(* The stream read loop on replies in which some frames carry a payload    *)
(* that is not valid JSON (proxy.js 1210-1227).                            *)
(***************************************************************************)
\* the replies of at most MaxFrames frames with a malformed frame among them
MixedSeqs ==
    {fs \in UNION {[1..n -> FramePool \cup {Malformed}] : n \in 1..MaxFrames} :
        \E i \in DOMAIN fs : fs[i] = Malformed}

BInit ==
    /\ QueueIdle
    /\ TransIdle
    /\ HandlerIdle
    /\ AdminIdle
    /\ frames \in MixedSeqs
    /\ wire = Encode(frames, Len(frames))
    /\ buffer = <<>>
    /\ index = 0
    /\ lastData = <<>>
    /\ delivered = <<>>
    /\ emitted = <<>>
    /\ ended = FALSE

BNext ==
    \/ \E n \in 1..Len(wire) : ReadChunk(n)
    \/ EndOfStream

SpecBadFrames == BInit /\ [][BNext]_vars

\* the well-formed frames of a reply, in order
WellFormed(fs) == SelectSeq(fs, LAMBDA g : g # Malformed)

\* C30: a malformed frame produces no object and is dropped: after a parse
\* call no complete frame stays in the buffer, and the objects returned so
\* far are the well-formed frames in order, none lost, duplicated or
\* truncated, all of them once the last byte is read.
C30_MalformedFrameDropped ==
    /\ \A i \in DOMAIN buffer : buffer[i] # "N"
    /\ IsPrefix(delivered, WellFormed(frames))
    /\ wire = <<>> => delivered = WellFormed(frames)

(***************************************************************************)
(* Specification of ClaudeStreamConverter alone (proxy.js 1231-1372): the  *)
(* objects of a reply are handed to convertChunk one by one, as the        *)
(* streaming branch does with each parsed object (server.js 512-517), and  *)
(* finalize is called at the end of the stream.                            *)
(***************************************************************************)
ObjectPool ==
    FramePool \cup
    { GeminiData(TRUE, <<FunctionCall("A")>>, "STOP"),
      GeminiData(TRUE, <<>>, ""),
      GeminiData(TRUE, <<FunctionCall("A"), TextPart("b")>>, "") }

ObjectSeqs == UNION {[1..n -> ObjectPool] : n \in 1..MaxFrames}

KInit ==
    /\ QueueIdle
    /\ TransIdle
    /\ HandlerIdle
    /\ AdminIdle
    /\ frames \in ObjectSeqs
    /\ wire = <<>>
    /\ buffer = <<>>
    /\ index = 0
    /\ lastData = <<>>
    /\ delivered = <<>>
    /\ emitted = <<>>
    /\ ended = FALSE

\* server.js 512-517: the next object of the reply goes through convertChunk
\* and its events are written to the client
ConvertNext ==
    /\ ~ended
    /\ Len(delivered) < Len(frames)
    /\ LET data == frames[Len(delivered) + 1]
           conv == convertChunk(index, lastData, data)
       IN  /\ index' = conv.index
           /\ lastData' = conv.lastData
           /\ delivered' = Append(delivered, data)
           /\ emitted' = emitted \o conv.events
    /\ UNCHANGED <<exceptStream, frames, wire, buffer, ended>>

\* server.js 521-526: at the end of the stream the events of finalize are
\* written
Finalize ==
    /\ ~ended
    /\ delivered = frames
    /\ emitted' = emitted \o finalize(lastData)
    /\ ended' = TRUE
    /\ UNCHANGED <<exceptStream, frames, wire, buffer, index, lastData, delivered>>

KNext ==
    \/ ConvertNext
    \/ Finalize

SpecConverter == KInit /\ [][KNext]_vars

\* the positions before k of the events of the given name and index
Earlier(events, k, name, i) ==
    {j \in 1..(k - 1) : events[j].event = name /\ events[j].index = i}

\* the content block events are well bracketed per index
WellBracketed(events) ==
    \A k \in DOMAIN events :
        LET e == events[k]
            started == Earlier(events, k, "content_block_start", e.index) # {}
            stopped == Earlier(events, k, "content_block_stop", e.index) # {}
        IN  /\ e.event = "content_block_start" => ~started
            /\ e.event = "content_block_delta" => (started /\ ~stopped)
            /\ e.event = "content_block_stop" => (started /\ ~stopped)

\* C31: in every emitted stream each content_block_delta and each
\* content_block_stop with index i is preceded by a content_block_start with
\* index i that has not been stopped yet, and no index is started twice or
\* stopped twice.
C31_BlocksWellBracketed == WellBracketed(emitted)

(***************************************************************************)
(* The slot counter of the queue, under SpecHandler.                       *)
(***************************************************************************)
\* C32: the running count of the queue equals the number of admitted calls
\* whose function has not settled yet, whatever the way the earlier calls
\* ended (reply, upstream error, timeout, throw); it is never negative and
\* is 0 when no call is in flight.
C32_RunningCountsInFlight ==
    /\ running = Cardinality(Pending({"fetch"}))
    /\ running >= 0
    /\ Pending({"fetch"}) = {} => running = 0

\* two calls are in flight after one call timed out and one threw
C32_Witness ==
    /\ running = 2
    /\ \E r \in Requests : calls[r].pc = "done" /\ calls[r].error = "timeout_error"
    /\ \E r \in Requests : calls[r].pc = "done" /\ calls[r].error = "server_error"

(***************************************************************************)
(* The `required` lists of a sanitised schema, under SpecSchema.           *)
(***************************************************************************)
\* the names of a list that are keys of the mapping, in the order of the list
NamesIn(names, mapping) ==
    SelectSeq(names, LAMBDA n : n.t = "s" /\ n.k[1] \in Range(ObjectKeys(mapping)))

\* out is the sanitised form of in as far as `required` goes, at every depth:
\* an object of out with `required` and `properties` names only keys of its
\* `properties` and never has an empty list; the list of an object of in is
\* kept whole when the object of out has no `properties`, and is otherwise
\* cut down, in order, to the keys of the `properties` of out
RECURSIVE RequiredRepaired(_, _)
RequiredRepaired(in, out) ==
    CASE in.t = "a" ->
            /\ out.t = "a"
            /\ Len(out.c) = Len(in.c)
            /\ \A i \in DOMAIN in.c : RequiredRepaired(in.c[i], out.c[i])
      [] in.t = "o" ->
            /\ out.t = "o"
            /\ (HasKey(out, "required") /\ HasKey(out, "properties")) =>
                  LET req == Get(out, "required")
                  IN  req.t = "a" =>
                        /\ req.c # <<>>
                        /\ NamesIn(req.c, Get(out, "properties")) = req.c
            /\ (HasKey(in, "required") /\ Get(in, "required").t = "a") =>
                  LET req == Get(in, "required").c
                      expect == IF HasKey(out, "properties")
                                THEN NamesIn(req, Get(out, "properties"))
                                ELSE req
                  IN  IF HasKey(out, "properties") /\ expect = <<>>
                      THEN ~HasKey(out, "required")
                      ELSE HasKey(out, "required") /\ Get(out, "required") = Arr(expect)
            /\ \A i \in DOMAIN out.k :
                  /\ HasKey(in, out.k[i])
                  /\ (out.k[i] = "required" /\ out.c[i].t = "a")
                        \/ RequiredRepaired(Get(in, out.k[i]), out.c[i])
      [] OTHER -> out = in

\* what the sanitiser makes of ExampleSchema
ExampleCleaned ==
    Obj(<<"type", "properties", "required">>,
        <<Str("s"), Obj(<<"q">>, <<Obj(<<"type">>, <<Str("s")>>)>>), Arr(<<Str("q")>>)>>)

\* C33: after sanitising, every object of the output with `required` and
\* `properties` names in `required` only keys of `properties`, in the order
\* of the input, and has no empty `required`; an object without `properties`
\* keeps `required` unchanged; the example schema gives the example result.
C33_RequiredRepaired ==
    phase = "cleaned" =>
        /\ RequiredRepaired(Schema, cleaned)
        /\ Schema = ExampleSchema => cleaned = ExampleCleaned

\* a schema whose `required` lost a name and kept another has been sanitised
C33_Witness ==
    /\ phase = "cleaned"
    /\ Schema.t = "o"
    /\ HasKey(Schema, "required")
    /\ HasKey(cleaned, "required")
    /\ Get(Schema, "required") = Arr(<<Str("title"), Str("b")>>)
    /\ Get(cleaned, "required") = Arr(<<Str("b")>>)

(***************************************************************************)
(* The declared parameters of a sanitised schema, under SpecSchema.        *)
(***************************************************************************)
\* the names of a list that are strings
Names(list) == {list[i].k[1] : i \in {j \in DOMAIN list : list[j].t = "s"}}

\* out declares every parameter in declares, at every depth: each key of a
\* `properties` mapping of in is a key of the matching mapping of out, and
\* each name of `required` that is such a key is in the `required` of out
RECURSIVE ParametersKept(_, _)
ParametersKept(in, out) ==
    CASE in.t = "a" ->
            /\ out.t = "a"
            /\ Len(out.c) = Len(in.c)
            /\ \A i \in DOMAIN in.c : ParametersKept(in.c[i], out.c[i])
      [] in.t = "o" ->
            /\ out.t = "o"
            /\ (HasKey(in, "properties") /\ Get(in, "properties").t = "o") =>
                  /\ HasKey(out, "properties")
                  /\ Range(Get(in, "properties").k) \subseteq Range(Get(out, "properties").k)
                  /\ (HasKey(in, "required") /\ Get(in, "required").t = "a") =>
                        LET declared == Names(Get(in, "required").c)
                                          \cap Range(Get(in, "properties").k)
                        IN  declared # {} =>
                              /\ HasKey(out, "required")
                              /\ declared \subseteq Names(Get(out, "required").c)
            /\ \A i \in DOMAIN out.k :
                  /\ HasKey(in, out.k[i])
                  /\ out.k[i] = "required" \/ ParametersKept(Get(in, out.k[i]), out.c[i])
      [] OTHER -> out = in

\* C38: sanitising keeps the declared parameters of a tool: every key of a
\* `properties` mapping of the input schema is a key of the matching mapping
\* of the output, also a parameter named like a JSON-Schema keyword, and
\* every name in `required` that names a declared parameter stays there.
C38_ParametersKept == phase = "cleaned" => ParametersKept(Schema, cleaned)

(***************************************************************************)
(* The entries of the response cache, under SpecHandler.                   *)
(***************************************************************************)
\* the entry under key is within its time to live
Fresh(key) == now - cache.cache[key].timestamp <= ttl

\* C34: a response stored under a fingerprint is not replaced while it is
\* within the TTL: no step changes the stored response, whatever requests
\* of the same fingerprint complete, two identical requests that both
\* missed included.
C34_EntriesImmutable ==
    [][\A key \in DOMAIN cache.cache :
          Fresh(key) =>
              /\ key \in DOMAIN cache'.cache
              /\ cache'.cache[key].data = cache.cache[key].data]_vars

\* the upstream call fails: an error status, the timeout, a network error,
\* or a reply without candidates
Failure(o) == o.kind # "ok" \/ ~o.data.candidate

\* the request b arrives in this step with the body of a, after a failed and
\* with no request of that fingerprint answered with success so far
RetryArrives(a, b) ==
    /\ calls[a].pc = "done"
    /\ calls[a].status # 200
    /\ \A c \in Requests : calls[c].key = calls[a].key => calls[c].xcache # "MISS"
    /\ calls[b].pc = "idle"
    /\ calls'[b].pc # "idle"
    /\ calls'[b].body = calls[a].body

\* C35: the cache is written only by a step that ends a non-streaming
\* upstream call with a translated reply; a non-streaming call that ends
\* with an upstream error status, the timeout, a network error or a reply
\* without candidates leaves the cache unchanged, and an identical retry is
\* not answered from the cache and goes upstream.
C35_CacheWrittenOnSuccessOnly ==
    [][/\ cache'.cache # cache.cache =>
             \E r \in Requests :
                 /\ calls[r].pc = "fetch"
                 /\ ~calls[r].body.stream
                 /\ calls'[r].status = 200
                 /\ calls'[r].xcache = "MISS"
                 /\ cache'.cache = CacheSet(cache, calls[r].key, calls'[r].reply[1], now).cache
       /\ \A r \in Requests : \A o \in Outcomes :
             (Settle(r, o) /\ Failure(o) /\ ~calls[r].body.stream) =>
                 /\ cache' = cache
                 /\ calls'[r].status # 200
       /\ \A a, b \in Requests :
             RetryArrives(a, b) =>
                 /\ calls'[b].xcache # "HIT"
                 /\ calls'[b].pc \in {"wait", "fetch"}]_vars

\* a non-streaming request failed, nothing was stored, and the identical
\* retry went upstream and was stored; another call ended with the timeout
C35_Witness ==
    \E a, b \in Requests :
        /\ a < b
        /\ calls[a].pc = "done"
        /\ calls[a].error = "server_error"
        /\ ~calls[a].body.stream
        /\ calls[b].body = calls[a].body
        /\ calls[b].xcache = "MISS"
        /\ calls[b].key \in DOMAIN cache.cache
        /\ cache.cache[calls[b].key].data = calls[b].reply[1]
        /\ \E r \in Requests : calls[r].pc = "done" /\ calls[r].error = "timeout_error"

\* the request r arrives in this step and is answered from the cache
CacheHit(r) ==
    /\ calls[r].pc = "idle"
    /\ calls'[r].xcache = "HIT"

\* C37: a non-streaming request answered from the cache is answered in the
\* step of its arrival, whatever requests are queued or in flight; it takes
\* no slot and no place in the queue, leaves the running count and the time
\* of the last departure unchanged, arms no upstream call, and adds exactly
\* one to the cached counter.
C37_HitSkipsQueue ==
    [][\A r \in Requests :
          CacheHit(r) =>
              /\ calls'[r].pc = "done"
              /\ calls'[r].repliedAt = now
              /\ calls'[r].abortAt = NoTimer
              /\ ~calls'[r].body.stream
              /\ running' = running
              /\ lastRequestTime' = lastRequestTime
              /\ sub' = sub
              /\ stats'.cached = stats.cached + 1
              /\ stats'.errors = stats.errors
              /\ \A q \in Requests \ {r} : calls'[q] = calls[q]]_vars

\* a request was answered from the cache while one request was in flight and
\* another waited for a slot or for the spacing interval
C37_Witness ==
    \E r, q, w \in Requests :
        /\ calls[r].xcache = "HIT"
        /\ calls[r].repliedAt = now
        /\ calls[q].pc = "fetch"
        /\ calls[w].pc = "wait"
        /\ stats.cached = 1

(***************************************************************************)
(* Admin operations that reply with an error, under SpecAdmin.             *)
(***************************************************************************)
\* the step is Put config, Regenerate localApiKey or Change password
\* replying 400 (validation failed) or 500 (the save failed)
AdminOperationFails ==
    /\ \/ \E token \in Presented : \E updates \in PatchPool : \E saved \in BOOLEAN :
             PutConfig(token, updates, saved)
       \/ \E token \in Presented : \E saved \in BOOLEAN : GenerateKey(token, saved)
       \/ \E a \in Admins : \E token \in Presented :
             \E currentPassword \in Passwords : \E newPassword \in Passwords \cup {""} :
                /\ ChangePasswordStart(a, token, currentPassword, newPassword)
                /\ inflight'[a].pc = "idle"
       \/ \E a \in Admins : \E saved \in BOOLEAN : ChangePasswordFinish(a, saved)
    /\ reply'.status \in {400, 500}

\* the key POST /v1/messages accepts
AcceptedKey == heap["loaded"].localApiKey

\* the configuration in memory is the one on disk
MemoryIsDisk == disk # <<>> /\ disk[1] = CurrentConfig

\* C36: an admin operation that replies with an error status, because the
\* validation or the save failed, leaves the state as it was: the
\* configuration in memory, the password Login accepts, the key the
\* translation endpoint accepts and the session store are unchanged, and the
\* configuration in memory still equals the persisted one.
C36_FailedOperationChangesNothing ==
    [][AdminOperationFails =>
          /\ CurrentConfig' = CurrentConfig
          /\ AcceptedPassword' = AcceptedPassword
          /\ AcceptedKey' = AcceptedKey
          /\ sessions' = sessions
          /\ disk' = disk
          /\ MemoryIsDisk => MemoryIsDisk']_vars

(***************************************************************************)
(* Specification of the queue with later submissions and fair timers.      *)
(* Callers keep arriving: a caller whose call has settled may call add     *)
(* again.  Time is kept relative to the present: `now` stays at Epoch and  *)
(* a tick moves every stored time 50 ms into the past.  add compares       *)
(* times only with now (server.js 72-83), so a departure more than         *)
(* minInterval ago and a timer that is due need no exact time.             *)
(***************************************************************************)
\* the time t, 50 ms later, counted from the new present; not below floor
Aged(t, floor) == IF t - pollInterval < floor THEN floor ELSE t - pollInterval

LInit ==
    /\ now = Epoch
    /\ running = 0
    /\ lastRequestTime = Epoch - minInterval
    /\ sub = [r \in Submitters |-> [pc |-> "idle", wakeAt |-> NoTimer]]
    /\ TransIdle
    /\ StreamIdle
    /\ HandlerIdle
    /\ AdminIdle

\* add(fn) is called, by a first caller or by a later one
LAdd(r) ==
    /\ sub[r].pc \in {"idle", "done"}
    /\ Apply(r, SlotWait(running, lastRequestTime, now))

\* 50 ms pass; a timer fires in the tick it is due in
LTick ==
    /\ \A r \in Submitters : sub[r].wakeAt = NoTimer \/ sub[r].wakeAt > now
    /\ lastRequestTime' = Aged(lastRequestTime, now - minInterval)
    /\ sub' = [r \in Submitters |->
                 IF sub[r].wakeAt = NoTimer THEN sub[r]
                 ELSE [sub[r] EXCEPT !.wakeAt = Aged(@, now)]]
    /\ UNCHANGED <<now, running, exceptQueue>>

LNext ==
    \/ \E r \in Submitters : LAdd(r)
    \/ \E r \in Submitters : QPollWake(r)
    \/ \E r \in Submitters : QSpaceWake(r)
    \/ \E r \in Submitters : QSettle(r)
    \/ LTick

\* time passes, a timer that is due fires, and every admitted call settles;
\* nothing is assumed about the arrivals
LFairness ==
    /\ WF_vars(LTick)
    /\ \A r \in Submitters :
          /\ WF_vars(QPollWake(r))
          /\ WF_vars(QSpaceWake(r))
          /\ WF_vars(QSettle(r))

SpecQueueLive == LInit /\ [][LNext]_vars /\ LFairness

\* the caller r waits inside add
Waits(r) == sub[r].pc \in {"poll", "space"}

\* C39: with fair timers and every admitted call settling, every caller
\* that waits inside add is eventually admitted and its function run,
\* whatever later submissions arrive.
C39_EveryCallerAdmitted ==
    \A r \in Submitters : Waits(r) ~> (sub[r].pc = "run")

====
